---------------------------- MODULE Spec2Model ----------------------------
(***************************************************************************)
(* Analysis Index Subsystem of vscode-python-override-hint                 *)
(* (src/src/extension.ts, second compilation unit, lines 599-1632):        *)
(*   PythonProcessManager   - the Analysis Worker Link                     *)
(*   IntelligentCache       - the Override Index Cache                     *)
(*   PythonOverrideAnalyzer - the Index Facade                             *)
(*   DocumentManager        - the Request Scheduler                        *)
(*                                                                         *)
(* Execution model.  The extension host is a single-threaded event loop.   *)
(* Every action below is one macrotask (an I/O event, a timer, a call from *)
(* the editor) or one promise continuation (a microtask).  microQ is the   *)
(* queue of continuations made runnable by a settled promise; while it is  *)
(* not empty no macrotask runs, except that further lines of the same      *)
(* stdout chunk are still handled (processOutput loops synchronously).     *)
(* The worker process and the file system run concurrently with the loop.  *)
(***************************************************************************)
EXTENDS Integers, Sequences, FiniteSets, TLC

(***************************************************************************)
(* Bounds of the model (inputs of the environment, not program constants). *)
(***************************************************************************)
\* analyze / resolve calls issued by the environment
MaxCalls == 2
\* worker processes ever spawned while calls are served
MaxProcs == 2
\* worker processes ever spawned by start / restart / dispose alone
MaxLifecycleProcs == 3
\* restart() calls issued directly on the Link
MaxRestarts == 1
\* file-system events (a file saved, a file deleted)
MaxFsEvents == 2
\* trigger events delivered to the DocumentManager
MaxSchedules == 4
\* bytes the worker writes to its stdout while the framing is examined
MaxStream == 4
\* timers the first DocumentManager of the file creates
MaxTimeouts == 4
\* of these, the ones that happen while resolve calls are being served
MaxResolveFsEvents == 1

Calls == 1..MaxCalls
Procs == 1..MaxLifecycleProcs
Ids   == 1..MaxCalls

FileA == "/p/a.py"
FileB == "/p/b.py"
Files == {FileA, FileB}

\* JavaScript undefined / null of an optional field
Undef == "undefined"

VARIABLES
    \* ---- operating system: worker processes and their pipes
    procState,        \* p -> "none" | "running" | "failed" | "killed" | "exited"
    procMgr,          \* p -> the PythonProcessManager instance that spawned p
    procReady,        \* p -> the worker has printed {"type":"ready"}
    stdin,            \* p -> request lines written to p and not yet read by it
    stdout,           \* p -> lines printed by p and not yet handed to the handler
    \* ---- PythonProcessManager (the instance the Facade currently refers to)
    pythonProcess,    \* this.pythonProcess: 0 is null
    messageId,        \* this.messageId
    pendingRequests,  \* keys of this.pendingRequests
    timers,           \* ids whose setTimeout of analyzeFile is still armed
    isReady,          \* this.isReady
    readyResolved,    \* this.readyPromise is resolved
    waitQ,            \* continuations awaiting this.readyPromise, in order
    restartsWaiting,  \* direct restart() calls inside their 1000 ms delay
    \* ---- callers of analyzeFile
    pc,               \* c -> position of call c
    file,             \* c -> its filePath argument
    callId,           \* c -> the numeric part of its req_<n> id, 0 before
    outcome,          \* c -> settlement of the promise analyzeFile returned
    microQ,           \* runnable continuations (microtasks), in order
    \* ---- file system and its watcher
    mtime,            \* f -> stat.mtimeMs of f
    exists,           \* f -> f is on disk
    watchQ,           \* notifications of the FileSystemWatcher not yet delivered
    \* ---- IntelligentCache
    projectIndex,     \* this.projectIndex: files, dependencies, lastScan
    snapshot,         \* content of override_cache.json
    diskOk,           \* writeFileSync of the snapshot succeeds
    \* ---- PythonOverrideAnalyzer
    processManager,   \* this.processManager: 0 is null, else the instance number
    isInitialized,    \* this.isInitialized
    orphanWait,       \* m -> initialize() calls awaiting start() of instance m,
                      \*      once the Facade refers to a newer instance
    ret,              \* c -> what resolve returned to call c
    since,            \* c -> what happened since call c returned
    \* ---- DocumentManager
    analysisQueue,    \* this.analysisQueue: filePath -> handle of its timer
    schedTimers,      \* timers of scheduleAnalysis set and neither cleared nor fired
    nextTimer,        \* handles given out by setTimeout so far
    disposed,         \* dispose() has run
    performed,        \* f -> performAnalysis(f) calls made by timers
    bursts,           \* f -> triggers for f that found no timer of f unfired
    burst,            \* f -> delays of the triggers since a timer of f last fired
    \* ---- stdout of the worker, byte by byte
    pipe,             \* bytes the worker has written that no 'data' event delivered
    received,         \* bytes the 'data' events have delivered so far
    outputBuffer,     \* this.outputBuffer, as UTF-16 code units
    handed,           \* the lines handed to JSON.parse so far, in order
    \* ---- the first DocumentManager of the file (lines 366-457)
    debounceTimers,   \* this.debounceTimers: f -> the recorded timer, 0 when none
    timeouts,         \* the timers setTimeout created there: file and state
    \* ---- history
    written,          \* <<id, p>>: request id was written to stdin of p
    lastOp            \* the handler that ran last, with its arguments

linkVars == <<pythonProcess, messageId, pendingRequests, timers, isReady,
              readyResolved, waitQ, restartsWaiting>>
osVars   == <<procState, procMgr, procReady, stdin, stdout>>
callVars == <<pc, file, callId, outcome, microQ>>

facadeVars == <<processManager, isInitialized, orphanWait, ret>>
fsVars   == <<mtime, exists, watchQ>>
cacheVars == <<projectIndex, snapshot, diskOk>>

\* everything outside the Worker Link and its callers
\* DocumentManager: analysisQueue, the timers it has set that are neither
\* cleared nor fired, and what has been asked of it
schedVars == <<analysisQueue, schedTimers, nextTimer, performed, bursts, burst,
               disposed>>
otherVars == <<facadeVars, fsVars, cacheVars, since>>
frameVars == <<pipe, received, outputBuffer, handed>>
debounceVars == <<debounceTimers, timeouts>>

vars == <<osVars, linkVars, callVars, otherVars, schedVars, frameVars, debounceVars, written,
          lastOp>>

---------------------------------------------------------------------------
(* Values *)

NoOutcome == [kind |-> "none", value |-> <<>>]
Resolved(v) == [kind |-> "result", value |-> v]
Rejected(msg) == [kind |-> "error", value |-> msg]

TerminatedMsg == "Python process terminated"
TimeoutMsg == "Analysis timeout"
WorkerErrorMsg == "analysis failed"

RECURSIVE SortedSeq(_)
SortedSeq(S) ==
    IF S = {} THEN <<>>
    ELSE LET m == CHOOSE x \in S : \A y \in S : x <= y
         IN <<m>> \o SortedSeq(S \ {m})

SeqToSet(s) == {s[i] : i \in 1..Len(s)}

\* the call whose pending entry is keyed req_<id>
CallerOf(id) == CHOOSE c \in Calls : callId[c] = id

(***************************************************************************)
(* The worker's answer for a file.  The analysis algorithm is outside the  *)
(* subsystem; what matters is that the answer is a function of the request *)
(* and differs from file to file.  Python reports class_name, not class.   *)
(***************************************************************************)
RawRelation(cls, meth, line, type, basePath, baseLine, childPath, childLine) ==
    [class |-> Undef, class_name |-> cls, method |-> meth, line |-> line,
     type |-> type,
     base_file_path |-> basePath, base_line |-> baseLine,
     child_file_path |-> childPath, child_line |-> childLine]

\* Line numbers move with every edit of the file they point into; a relation
\* whose peer file is gone is not reported.  mt and ex are the modification
\* times and the presence of the files when the worker reads them.
AnalysisOf(f, mt, ex) ==
    IF f = FileA
    THEN IF ex[FileB]
         THEN << RawRelation("Dog", "speak", 5 + mt[FileA], "child_override",
                             FileB, 2 + mt[FileB], Undef, 0),
                 RawRelation("Dog", "eat", 9 + mt[FileA], "child_override",
                             FileB, 4 + mt[FileB], Undef, 0) >>
         ELSE <<>>
    ELSE (IF ex[FileA]
          THEN << RawRelation("Animal", "speak", 2 + mt[FileB], "parent_overridden",
                              Undef, 0, FileA, 5 + mt[FileA]) >>
          ELSE <<>>)
         \o << RawRelation("Animal", "sleep", 7 + mt[FileB], "parent_overridden",
                            Undef, 0, "", 0) >>

WorkerAnalyze(f) == AnalysisOf(f, mtime, exists)

ReadyLine == [type |-> "ready", id |-> 0, result |-> <<>>, error |-> ""]
ResultLine(id, res) == [type |-> "response", id |-> id, result |-> res, error |-> ""]
ErrorLine(id, msg) == [type |-> "response", id |-> id, result |-> <<>>, error |-> msg]
\* a response that carries an id and neither result nor error
BareLine(id) == [type |-> "bare", id |-> id, result |-> <<>>, error |-> ""]
\* response.result || [], line 750
ResultOf(line) == IF line.type = "bare" THEN <<>> ELSE line.result
\* a response that carries no id known to anybody
StrayLine == ResultLine(0, <<>>)

\* a line that JSON.parse rejects
GarbageLine == [type |-> "garbage", id |-> 0, result |-> <<>>, error |-> ""]

NoLine == [type |-> "none", id |-> 0, result |-> <<>>, error |-> ""]

\* lastOp: which handler ran, on which call / process / stdout line, and the
\* keys of pendingRequests when it started
Op(name, c, p, line) ==
    [op |-> name, call |-> c, proc |-> p, line |-> line, pend |-> pendingRequests,
     file |-> "", had |-> {}, hit |-> FALSE, value |-> <<>>]

\* lastOp of an operation of call c (0: none) on the cache entry of file f: the
\* keys of projectIndex.files when it started, and what the cache returned
CacheOp(name, c, f, hit, value) ==
    [op |-> name, call |-> c, proc |-> 0, line |-> NoLine, pend |-> {},
     file |-> f, had |-> DOMAIN projectIndex.files, hit |-> hit, value |-> value]

---------------------------------------------------------------------------
(* PythonProcessManager *)

CanSpawn == \E p \in Procs : procState[p] = "none"
\* fewer than MaxProcs processes were spawned; a start() now stays within that
SpawnsLeft == Cardinality({p \in Procs : procState[p] # "none"}) < MaxProcs
MaySpawn == pythonProcess # 0 \/ SpawnsLeft
NewProc == CHOOSE p \in Procs : procState[p] = "none"
                                /\ \A q \in Procs : q < p => procState[q] # "none"

\* callers of the pending entries, in Map iteration (= insertion = id) order
PendingCallers ==
    LET ids == SortedSeq(pendingRequests)
    IN [i \in 1..Len(ids) |-> CallerOf(ids[i])]

\* A promise settles once: resolve / reject of a settled promise is a no-op.
Settle(oc, c, v) == IF oc[c].kind = "none" THEN [oc EXCEPT ![c] = v] ELSE oc

\* cleanup() that empties the table without rejecting its entries
cleanupDropsPending(pcBase, qBase) ==
    /\ isReady' = FALSE
    /\ pythonProcess' = 0
    /\ timers' = timers \ pendingRequests
    /\ outcome' = outcome
    /\ pc' = pcBase
    /\ microQ' = qBase
    /\ pendingRequests' = {}

\* cleanup(), lines 786-798.  pcBase / qBase: pc and microQ as the calling
\* handler leaves them.
cleanup(pcBase, qBase) ==
    /\ isReady' = FALSE
    /\ pythonProcess' = 0
    /\ timers' = timers \ pendingRequests
    /\ outcome' = [c \in Calls |->
                     IF callId[c] \in pendingRequests /\ outcome[c].kind = "none"
                     THEN Rejected(TerminatedMsg) ELSE outcome[c]]
    /\ pc' = [c \in Calls |->
                IF callId[c] \in pendingRequests THEN "settled" ELSE pcBase[c]]
    /\ microQ' = qBase \o PendingCallers
    /\ pendingRequests' = {}

\* dispose(), lines 806-812
dispose(pcBase, qBase) ==
    /\ procState' = IF pythonProcess # 0 /\ procState[pythonProcess] = "running"
                    THEN [procState EXCEPT ![pythonProcess] = "killed"]
                    ELSE procState
    /\ cleanup(pcBase, qBase)

\* a start() that spawns whether or not the Link holds a process
startSpawnsAgain(mgr, st) ==
    IF ~CanSpawn
    THEN UNCHANGED <<pythonProcess, procState, procMgr>>
    ELSE /\ pythonProcess' = NewProc
         /\ procState' = [procState EXCEPT ![NewProc] = st]
         /\ procMgr' = [procMgr EXCEPT ![NewProc] = mgr]

\* start(), lines 660-682.  spawn() reports a failure to launch through the
\* child's 'error' event, not by throwing; st is what the OS made of the spawn.
start(mgr, st) ==
    IF pythonProcess # 0
    THEN UNCHANGED <<pythonProcess, procState, procMgr>>
    ELSE /\ pythonProcess' = NewProc
         /\ procState' = [procState EXCEPT ![NewProc] = st]
         /\ procMgr' = [procMgr EXCEPT ![NewProc] = mgr]

\* a register that numbers a request by the size of the pending table
registerCountsPending(c) ==
    LET id == Cardinality(pendingRequests) + 1 IN
    /\ messageId' = id
    /\ callId' = [callId EXCEPT ![c] = id]
    /\ timers' = timers \cup {id}
    /\ pendingRequests' = pendingRequests \cup {id}
    /\ IF pythonProcess # 0
       THEN /\ stdin' = [stdin EXCEPT ![pythonProcess] =
                            @ \cup {[id |-> id, file |-> file'[c]]}]
            /\ written' = written \cup {<<id, pythonProcess>>}
       ELSE UNCHANGED <<stdin, written>>

\* the body of the promise in analyzeFile, lines 760-783, for call c.
\* stdin.write does not throw (a broken pipe is reported asynchronously), so
\* the catch of lines 778-782 is not taken; with pythonProcess null the
\* optional chain of line 777 writes nothing.
register(c) ==
    LET id == messageId + 1 IN
    /\ messageId' = id
    /\ callId' = [callId EXCEPT ![c] = id]
    /\ timers' = timers \cup {id}
    /\ pendingRequests' = pendingRequests \cup {id}
    /\ IF pythonProcess # 0
       THEN /\ stdin' = [stdin EXCEPT ![pythonProcess] =
                            @ \cup {[id |-> id, file |-> file'[c]]}]
            /\ written' = written \cup {<<id, pythonProcess>>}
       ELSE UNCHANGED <<stdin, written>>

\* handleResponse that hands a response to the oldest pending request
handleResponseInSendOrder(line) ==
    IF pendingRequests # {}
    THEN LET id == CHOOSE i \in pendingRequests : \A j \in pendingRequests : i <= j
             c == CallerOf(id) IN
         /\ timers' = timers \ {id}
         /\ pendingRequests' = pendingRequests \ {id}
         /\ outcome' = Settle(outcome, c,
                              IF line.error # "" THEN Rejected(line.error)
                              ELSE Resolved(line.result))
         /\ pc' = [pc EXCEPT ![c] = "settled"]
         /\ microQ' = Append(microQ, c)
    ELSE UNCHANGED <<timers, pendingRequests, outcome, pc, microQ>>

\* handleResponse that treats an unknown id as a protocol failure and drops
\* every pending entry
handleResponseResetsOnUnknown(line) ==
    IF line.id \in pendingRequests
    THEN LET c == CallerOf(line.id) IN
         /\ timers' = timers \ {line.id}
         /\ pendingRequests' = pendingRequests \ {line.id}
         /\ outcome' = Settle(outcome, c,
                              IF line.error # "" THEN Rejected(line.error)
                              ELSE Resolved(line.result))
         /\ pc' = [pc EXCEPT ![c] = "settled"]
         /\ microQ' = Append(microQ, c)
    ELSE /\ timers' = timers \ pendingRequests
         /\ pendingRequests' = {}
         /\ UNCHANGED <<outcome, pc, microQ>>

\* handleResponse that rejects on an error and leaves the entry and its timer
handleResponseErrorKeepsEntry(line) ==
    IF line.id \in pendingRequests
    THEN LET c == CallerOf(line.id) IN
         /\ timers' = IF line.error # "" THEN timers ELSE timers \ {line.id}
         /\ pendingRequests' = IF line.error # "" THEN pendingRequests
                               ELSE pendingRequests \ {line.id}
         /\ outcome' = Settle(outcome, c,
                              IF line.error # "" THEN Rejected(line.error)
                              ELSE Resolved(ResultOf(line)))
         /\ pc' = [pc EXCEPT ![c] = "settled"]
         /\ microQ' = Append(microQ, c)
    ELSE UNCHANGED <<timers, pendingRequests, outcome, pc, microQ>>

\* handleResponse(response), lines 737-753
handleResponse(line) ==
    IF line.id \in pendingRequests
    THEN LET c == CallerOf(line.id) IN
         /\ timers' = timers \ {line.id}
         /\ pendingRequests' = pendingRequests \ {line.id}
         /\ outcome' = Settle(outcome, c,
                              IF line.error # "" THEN Rejected(line.error)
                              ELSE Resolved(ResultOf(line)))
         /\ pc' = [pc EXCEPT ![c] = "settled"]
         /\ microQ' = Append(microQ, c)
    ELSE UNCHANGED <<timers, pendingRequests, outcome, pc, microQ>>

\* A macrotask starts only when no continuation is runnable.
LoopIdle == microQ = <<>>

\* start() called on the Link
StartCall(st) ==
    /\ UNCHANGED <<schedVars, frameVars, debounceVars>>
    /\ LoopIdle
    /\ processManager # 0
    /\ pythonProcess # 0 \/ CanSpawn
    /\ start(processManager, st)
    /\ lastOp' = Op("start", 0, pythonProcess', NoLine)
    /\ UNCHANGED <<procReady, stdin, stdout, messageId, pendingRequests, timers,
                   isReady, readyResolved, waitQ, restartsWaiting, callVars,
                   otherVars, written>>

\* dispose() called on the Link
DisposeCall ==
    /\ UNCHANGED <<schedVars, frameVars, debounceVars>>
    /\ LoopIdle
    /\ processManager # 0
    /\ dispose(pc, microQ)
    /\ lastOp' = Op("dispose", 0, pythonProcess, NoLine)
    /\ UNCHANGED <<procMgr, procReady, stdin, stdout, messageId, readyResolved,
                   waitQ, restartsWaiting, file, callId, otherVars, written>>

\* restart() called on the Link, lines 800-802: dispose, then the 1000 ms wait
RestartCall ==
    /\ UNCHANGED <<schedVars, frameVars, debounceVars>>
    /\ LoopIdle
    /\ processManager # 0
    /\ restartsWaiting < MaxRestarts
    /\ dispose(pc, microQ)
    /\ restartsWaiting' = restartsWaiting + 1
    /\ lastOp' = Op("restart", 0, pythonProcess, NoLine)
    /\ UNCHANGED <<procMgr, procReady, stdin, stdout, messageId, readyResolved,
                   waitQ, file, callId, otherVars, written>>

\* the 1000 ms timer of restart() fires, line 803: start()
RestartTimer(st) ==
    /\ UNCHANGED <<schedVars, frameVars, debounceVars>>
    /\ LoopIdle
    /\ restartsWaiting > 0
    /\ pythonProcess # 0 \/ CanSpawn
    /\ restartsWaiting' = restartsWaiting - 1
    /\ start(processManager, st)
    /\ lastOp' = Op("restartTimer", 0, pythonProcess', NoLine)
    /\ UNCHANGED <<procReady, stdin, stdout, messageId, pendingRequests, timers,
                   isReady, readyResolved, waitQ, callVars, otherVars, written>>

\* analyzeFile(filePath) called on the Link, lines 755-758.  With isReady the
\* promise body runs at once; otherwise the call awaits readyPromise, and is
\* runnable at once when that promise is already resolved.
AnalyzeCall(c, f) ==
    /\ UNCHANGED <<schedVars, frameVars, debounceVars>>
    /\ LoopIdle
    /\ processManager # 0
    /\ pc[c] = "idle"
    /\ \A d \in Calls : d < c => pc[d] # "idle"
    /\ file' = [file EXCEPT ![c] = f]
    /\ lastOp' = Op("analyze", c, pythonProcess, NoLine)
    /\ IF isReady
       THEN /\ register(c)
            /\ pc' = [pc EXCEPT ![c] = "pending"]
            /\ UNCHANGED <<waitQ, microQ>>
       ELSE /\ pc' = [pc EXCEPT ![c] = "waitReady"]
            /\ IF readyResolved
               THEN microQ' = Append(microQ, c) /\ waitQ' = waitQ
               ELSE waitQ' = Append(waitQ, c) /\ microQ' = microQ
            /\ UNCHANGED <<messageId, callId, timers, pendingRequests, stdin, written>>
    /\ UNCHANGED <<procState, procMgr, procReady, stdout, pythonProcess, isReady,
                   readyResolved, restartsWaiting, outcome, otherVars>>

\* the timer callback without its pendingRequests.delete(id)
TimeoutKeepsEntry(id) ==
    /\ UNCHANGED <<schedVars, frameVars, debounceVars>>
    /\ LoopIdle
    /\ id \in timers
    /\ timers' = timers \ {id}
    /\ pendingRequests' = pendingRequests
    /\ outcome' = Settle(outcome, CallerOf(id), Rejected(TimeoutMsg))
    /\ pc' = [pc EXCEPT ![CallerOf(id)] = "settled"]
    /\ microQ' = Append(microQ, CallerOf(id))
    /\ lastOp' = Op("timeout", CallerOf(id), 0, NoLine)
    /\ UNCHANGED <<osVars, pythonProcess, messageId, isReady, readyResolved, waitQ,
                   restartsWaiting, file, callId, otherVars, written>>

\* the timer of lines 768-771 fires
Timeout(id) ==
    /\ UNCHANGED <<schedVars, frameVars, debounceVars>>
    /\ LoopIdle
    /\ id \in timers
    /\ timers' = timers \ {id}
    /\ pendingRequests' = pendingRequests \ {id}
    /\ outcome' = Settle(outcome, CallerOf(id), Rejected(TimeoutMsg))
    /\ pc' = [pc EXCEPT ![CallerOf(id)] = "settled"]
    /\ microQ' = Append(microQ, CallerOf(id))
    /\ lastOp' = Op("timeout", CallerOf(id), 0, NoLine)
    /\ UNCHANGED <<osVars, pythonProcess, messageId, isReady, readyResolved, waitQ,
                   restartsWaiting, file, callId, otherVars, written>>

\* processOutput that gives the pending requests up when a line does not
\* parse
processOutputDropsPending(line) ==
    IF line.type = "garbage"
    THEN /\ timers' = {}
         /\ pendingRequests' = {}
         /\ UNCHANGED <<isReady, readyResolved, microQ, waitQ, outcome, pc>>
    ELSE IF line.type = "ready"
    THEN /\ isReady' = TRUE
         /\ readyResolved' = TRUE
         /\ microQ' = microQ \o waitQ
         /\ waitQ' = <<>>
         /\ UNCHANGED <<timers, pendingRequests, outcome, pc>>
    ELSE /\ handleResponse(line)
         /\ UNCHANGED <<isReady, readyResolved, waitQ>>

\* one complete line of a stdout chunk, lines 689-735; JSON.parse throws on a
\* line that is no JSON and the catch of lines 731-733 only logs
processOutput(line) ==
    IF line.type = "garbage"
    THEN UNCHANGED <<isReady, readyResolved, microQ, waitQ, timers,
                     pendingRequests, outcome, pc>>
    ELSE IF line.type = "ready"
    THEN /\ isReady' = TRUE
         /\ readyResolved' = TRUE
         /\ microQ' = microQ \o waitQ
         /\ waitQ' = <<>>
         /\ UNCHANGED <<timers, pendingRequests, outcome, pc>>
    ELSE /\ handleResponse(line)
         /\ UNCHANGED <<isReady, readyResolved, waitQ>>

\* 'data' on the stdout of a process of the current Link.  A further line is
\* handled before the continuations only inside the same chunk.
StdoutData(p, line) ==
    /\ UNCHANGED <<schedVars, frameVars, debounceVars>>
    /\ LoopIdle \/ (lastOp.op = "data" /\ lastOp.proc = p)
    /\ procMgr[p] = processManager
    /\ line \in stdout[p]
    /\ stdout' = [stdout EXCEPT ![p] = @ \ {line}]
    /\ processOutput(line)
    /\ lastOp' = Op("data", 0, p, line)
    /\ UNCHANGED <<procState, procMgr, procReady, stdin, pythonProcess, messageId,
                   restartsWaiting, file, callId, otherVars, written>>

\* 'data' carrying a line the worker printed with an id that is no key of
\* pendingRequests (here: no id at all)
StrayData(p) ==
    /\ UNCHANGED <<schedVars, frameVars, debounceVars>>
    /\ LoopIdle
    /\ procMgr[p] = processManager
    /\ procState[p] = "running" /\ procReady[p]
    /\ processOutput(StrayLine)
    /\ lastOp' = Op("data", 0, p, StrayLine)
    /\ UNCHANGED <<osVars, pythonProcess, messageId, restartsWaiting, file, callId,
                   otherVars, written>>

\* 'data' carrying a line that is no JSON, alone or inside a chunk whose
\* earlier lines were just handled
GarbageData(p) ==
    /\ UNCHANGED <<schedVars, frameVars, debounceVars>>
    /\ LoopIdle \/ (lastOp.op = "data" /\ lastOp.proc = p)
    /\ procMgr[p] = processManager
    /\ procState[p] = "running"
    /\ processOutput(GarbageLine)
    /\ lastOp' = Op("data", 0, p, GarbageLine)
    /\ UNCHANGED <<osVars, pythonProcess, messageId, restartsWaiting, file, callId,
                   otherVars, written>>

\* an 'exit' handler that spawns a replacement at once
ProcExitRespawns(p) ==
    /\ UNCHANGED <<schedVars, frameVars, debounceVars>>
    /\ LoopIdle
    /\ procMgr[p] = processManager
    /\ procState[p] \in {"running", "killed"}
    /\ cleanup(pc, microQ)
    /\ procState' = IF \E q \in Procs : procState[q] = "none"
                    THEN [procState EXCEPT ![p] = "exited", ![NewProc] = "running"]
                    ELSE [procState EXCEPT ![p] = "exited"]
    /\ procMgr' = IF \E q \in Procs : procState[q] = "none"
                  THEN [procMgr EXCEPT ![NewProc] = processManager]
                  ELSE procMgr
    /\ stdin' = [stdin EXCEPT ![p] = {}]
    /\ lastOp' = Op("exit", 0, p, NoLine)
    /\ UNCHANGED <<procReady, stdout, messageId, readyResolved, waitQ,
                   restartsWaiting, file, callId, otherVars, written>>

\* 'exit' of a process of the current Link, lines 705-708
ProcExit(p) ==
    /\ UNCHANGED <<schedVars, frameVars, debounceVars>>
    /\ LoopIdle
    /\ procMgr[p] = processManager
    /\ procState[p] \in {"running", "killed"}
    /\ cleanup(pc, microQ)
    /\ procState' = [procState EXCEPT ![p] = "exited"]
    /\ stdin' = [stdin EXCEPT ![p] = {}]
    /\ lastOp' = Op("exit", 0, p, NoLine)
    /\ UNCHANGED <<procMgr, procReady, stdout, messageId, readyResolved, waitQ,
                   restartsWaiting, file, callId, otherVars, written>>

\* 'error' of a process of the current Link (the spawn failed), lines 700-703
ProcError(p) ==
    /\ UNCHANGED <<schedVars, frameVars, debounceVars>>
    /\ LoopIdle
    /\ procMgr[p] = processManager
    /\ procState[p] = "failed"
    /\ cleanup(pc, microQ)
    /\ procState' = [procState EXCEPT ![p] = "exited"]
    /\ stdin' = [stdin EXCEPT ![p] = {}]
    /\ lastOp' = Op("error", 0, p, NoLine)
    /\ UNCHANGED <<procMgr, procReady, stdout, messageId, readyResolved, waitQ,
                   restartsWaiting, file, callId, otherVars, written>>

\* continuation of a direct caller of analyzeFile
Resume(c) ==
    /\ UNCHANGED <<schedVars, frameVars, debounceVars>>
    /\ microQ # <<>> /\ Head(microQ) = c
    /\ lastOp' = Op("resume", c, 0, NoLine)
    /\ IF pc[c] = "waitReady"
       THEN /\ file' = file
            /\ register(c)
            /\ pc' = [pc EXCEPT ![c] = "pending"]
            /\ microQ' = Tail(microQ)
            /\ UNCHANGED outcome
       ELSE /\ pc' = [pc EXCEPT ![c] = "done"]
            /\ microQ' = Tail(microQ)
            /\ UNCHANGED <<file, messageId, callId, timers, pendingRequests, stdin,
                           written, outcome>>
    /\ UNCHANGED <<procState, procMgr, procReady, stdout, pythonProcess, isReady,
                   readyResolved, waitQ, restartsWaiting, otherVars>>

---------------------------------------------------------------------------
(* Framing of the worker's stdout, lines 689-694 and 713-718, byte by byte. *)
(* Bytes and UTF-16 code units are numbers: 10 is the newline, 32 the       *)
(* space, 97 the letter a; 195 169 is the UTF-8 encoding of U+00E9.         *)

\* what the worker may print next: one ASCII character or one two-byte one
Utf8Units == {<<10>>, <<32>>, <<97>>, <<195, 169>>}

\* Buffer.toString() of line 690: UTF-8 decoding of one chunk on its own.  A
\* lead byte of a two-byte sequence with its continuation byte is one code
\* unit; a lead byte without it, and a continuation byte without a lead
\* byte, decode to U+FFFD.
RECURSIVE toString(_)
toString(bytes) ==
    IF bytes = <<>> THEN <<>>
    ELSE IF bytes[1] < 128 THEN <<bytes[1]>> \o toString(Tail(bytes))
    ELSE IF bytes[1] \in 194..223 /\ Len(bytes) >= 2 /\ bytes[2] \in 128..191
         THEN <<(bytes[1] - 192) * 64 + (bytes[2] - 128)>>
                 \o toString(SubSeq(bytes, 3, Len(bytes)))
         ELSE <<65533>> \o toString(Tail(bytes))

\* text.split('\n'), line 714
RECURSIVE split(_)
split(text) ==
    IF \A i \in 1..Len(text) : text[i] # 10 THEN <<text>>
    ELSE LET i == CHOOSE k \in 1..Len(text) :
                      text[k] = 10 /\ \A j \in 1..(k - 1) : text[j] # 10
         IN <<SubSeq(text, 1, i - 1)>> \o split(SubSeq(text, i + 1, Len(text)))

\* line.trim() is not empty, line 718
NotBlank(line) == \E i \in 1..Len(line) : line[i] \notin {9, 10, 13, 32}

\* the lines of a buffer that go to JSON.parse, lines 714-721: all segments
\* but the last, the blank ones skipped
CompleteLines(text) ==
    SelectSeq(SubSeq(split(text), 1, Len(split(text)) - 1), NotBlank)
\* lines.pop(), line 715: the segment after the last newline stays buffered
Fragment(text) == split(text)[Len(split(text))]

\* the worker prints
WorkerWrites(unit) ==
    /\ Len(received) + Len(pipe) + Len(unit) <= MaxStream
    /\ pipe' = pipe \o unit
    /\ UNCHANGED <<received, outputBuffer, handed, schedVars, osVars, linkVars,
                   callVars, otherVars, debounceVars, written, lastOp>>

\* 'data' on stdout with the first n bytes of the pipe, lines 689-694, and the
\* framing of processOutput, lines 713-718
StdoutChunk(n) ==
    /\ n \in 1..Len(pipe)
    /\ pipe' = SubSeq(pipe, n + 1, Len(pipe))
    /\ received' = received \o SubSeq(pipe, 1, n)
    /\ LET text == outputBuffer \o toString(SubSeq(pipe, 1, n)) IN
       /\ outputBuffer' = Fragment(text)
       /\ handed' = handed \o CompleteLines(text)
    /\ UNCHANGED <<schedVars, osVars, linkVars, callVars, otherVars, debounceVars,
                   written, lastOp>>

NextFraming ==
    \/ \E unit \in Utf8Units : WorkerWrites(unit)
    \/ \E n \in 1..MaxStream : StdoutChunk(n)

---------------------------------------------------------------------------
(* The worker process: analyze_override.py --server *)

WorkerReady(p) ==
    /\ UNCHANGED <<schedVars, frameVars, debounceVars>>
    /\ procState[p] = "running"
    /\ ~procReady[p]
    /\ procReady' = [procReady EXCEPT ![p] = TRUE]
    /\ stdout' = [stdout EXCEPT ![p] = @ \cup {ReadyLine}]
    /\ UNCHANGED <<procState, procMgr, stdin, linkVars, callVars, otherVars,
                   written, lastOp>>

WorkerRespond(p, req, ok) ==
    /\ UNCHANGED <<schedVars, frameVars, debounceVars>>
    /\ procState[p] = "running"
    /\ procReady[p]
    /\ req \in stdin[p]
    /\ ok => exists[req.file]
    /\ stdin' = [stdin EXCEPT ![p] = @ \ {req}]
    /\ stdout' = [stdout EXCEPT ![p] = @ \cup
                     {IF ok THEN ResultLine(req.id, WorkerAnalyze(req.file))
                            ELSE ErrorLine(req.id, WorkerErrorMsg)}]
    /\ UNCHANGED <<procState, procMgr, procReady, linkVars, callVars, otherVars,
                   written, lastOp>>

\* the worker answers a request with its id alone
WorkerRespondsBare(p, req) ==
    /\ UNCHANGED <<schedVars, frameVars, debounceVars>>
    /\ procState[p] = "running"
    /\ procReady[p]
    /\ req \in stdin[p]
    /\ stdin' = [stdin EXCEPT ![p] = @ \ {req}]
    /\ stdout' = [stdout EXCEPT ![p] = @ \cup {BareLine(req.id)}]
    /\ UNCHANGED <<procState, procMgr, procReady, linkVars, callVars, otherVars,
                   written, lastOp>>

Worker ==
    \E p \in Procs :
        \/ WorkerReady(p)
        \/ \E req \in stdin[p], ok \in BOOLEAN : WorkerRespond(p, req, ok)

---------------------------------------------------------------------------
(* IntelligentCache.  A Map is a function whose domain is the set of keys. *)

EmptyIndex == [files |-> <<>>, dependencies |-> <<>>, lastScan |-> 0]
NoSnapshot == [present |-> FALSE, data |-> EmptyIndex]

Has(map, k) == k \in DOMAIN map
MapSet(map, k, v) == [x \in DOMAIN map \cup {k} |-> IF x = k THEN v ELSE map[x]]
MapDelete(map, keys) == [x \in DOMAIN map \ keys |-> map[x]]

\* Boolean(x) of a path: '' and undefined are falsy
Truthy(x) == x \notin {"", Undef}

RECURSIVE FilterTruthy(_)
FilterTruthy(s) ==
    IF s = <<>> THEN <<>>
    ELSE IF Truthy(Head(s)) THEN <<Head(s)>> \o FilterTruthy(Tail(s))
         ELSE FilterTruthy(Tail(s))

\* Array.from(new Set(s)): first occurrences, in order
RECURSIVE Unique(_)
Unique(s) ==
    IF s = <<>> THEN <<>>
    ELSE LET front == Unique(SubSeq(s, 1, Len(s) - 1))
             last == s[Len(s)]
         IN IF last \in SeqToSet(front) THEN front ELSE Append(front, last)

(***************************************************************************)
(* The snapshot file as loadCache meets it.  A document is what JSON.parse  *)
(* makes of the text: kind "unreadable" (readFileSync throws), "garbage"    *)
(* (JSON.parse throws), "null", "scalar" (a number, string or boolean) or   *)
(* "object".  The files and dependencies members of an object are parts:    *)
(* "missing" (absent or falsy: `|| []` takes over), "notIterable" (a number *)
(* or a plain object) or "iterable" with items.  An item is what the Map    *)
(* constructor is handed for one entry: isObject says whether it is an      *)
(* object (an array [key, value] is one); its value is a JSON value of type *)
(* "entry" ({overrides, lastModified}), "paths" (an array of strings) or    *)
(* "number".  Nothing tests the type of a value.                            *)
(***************************************************************************)
JsonValue(type, entry, paths) == [type |-> type, entry |-> entry, paths |-> paths]
NumberValue == JsonValue("number", [overrides |-> <<>>, lastModified |-> 0], <<>>)
\* the value as the Map holds it; the number is 5
FromJson(v) ==
    CASE v.type = "entry" -> v.entry
      [] v.type = "paths" -> v.paths
      [] OTHER -> 5
MissingPart == [kind |-> "missing", items |-> <<>>]
NotIterablePart == [kind |-> "notIterable", items |-> <<>>]
IterablePart(items) == [kind |-> "iterable", items |-> items]

PairItem(k, v) == [isObject |-> TRUE, key |-> k, value |-> v]
\* 5 or "ab" in place of a pair
ScalarItem == [isObject |-> FALSE, key |-> Undef, value |-> NumberValue]

Document(kind, files, dependencies, lastScan) ==
    [kind |-> kind, files |-> files, dependencies |-> dependencies,
     lastScan |-> lastScan]

\* new Map(part), lines 857-858: throws a TypeError for a value that is not
\* iterable and for an item that is not an object; a later pair with the same
\* key replaces the earlier one
RECURSIVE MapOfItems(_)
MapOfItems(items) ==
    IF items = <<>> THEN <<>>
    ELSE LET n == Len(items) IN
         MapSet(MapOfItems(SubSeq(items, 1, n - 1)), items[n].key,
                FromJson(items[n].value))

newMap(part) ==
    IF part.kind = "notIterable"
          \/ \E i \in 1..Len(part.items) : ~part.items[i].isObject
    THEN [threw |-> TRUE, map |-> <<>>]
    ELSE [threw |-> FALSE, map |-> MapOfItems(part.items)]

\* Array.from(map.entries()) of lines 876-877 after JSON.stringify and
\* JSON.parse: one pair per key.  A member whose value is undefined is left
\* out by JSON.stringify and reads as undefined after JSON.parse, which Undef
\* stands for on both sides.
RECURSIVE entriesOf(_, _)
entriesOf(map, type) ==
    IF DOMAIN map = {} THEN <<>>
    ELSE LET k == CHOOSE x \in DOMAIN map : TRUE IN
         <<PairItem(k, IF type = "entry"
                       THEN JsonValue("entry", map[k], <<>>)
                       ELSE JsonValue("paths",
                                      [overrides |-> <<>>, lastModified |-> 0],
                                      map[k]))>>
            \o entriesOf(MapDelete(map, {k}), type)

\* what JSON.parse makes of the file persistCache wrote for idx, lines 875-880
writtenFor(idx) ==
    Document("object", IterablePart(entriesOf(idx.files, "entry")),
             IterablePart(entriesOf(idx.dependencies, "paths")), idx.lastScan)

\* a loadCache that restores the files and starts with no dependencies
loadCacheFilesOnly(snap, idx) ==
    IF ~snap.present THEN idx
    ELSE IF snap.data.kind \in {"unreadable", "garbage", "null"} THEN idx
    ELSE IF newMap(snap.data.files).threw \/ newMap(snap.data.dependencies).threw
         THEN idx
         ELSE [files |-> newMap(snap.data.files).map,
               dependencies |-> <<>>,
               lastScan |-> snap.data.lastScan]

\* loadCache(), lines 851-865: the index afterwards, idx being the index of
\* the field initializer (lines 819-823).  Whatever throws inside the try is
\* caught and logged, and the index is assigned only if nothing threw;
\* `data.files` of null throws, of a scalar is undefined.
loadCache(snap, idx) ==
    IF ~snap.present THEN idx
    ELSE IF snap.data.kind \in {"unreadable", "garbage", "null"} THEN idx
    ELSE IF newMap(snap.data.files).threw \/ newMap(snap.data.dependencies).threw
         THEN idx
         ELSE [files |-> newMap(snap.data.files).map,
               dependencies |-> newMap(snap.data.dependencies).map,
               lastScan |-> snap.data.lastScan]

\* persistCache(), lines 867-884: the content of the snapshot file afterwards;
\* a failure of writeFileSync is caught and logged
persistCache(idx, snap) ==
    IF diskOk THEN [present |-> TRUE, data |-> idx] ELSE snap

\* a get for which an unchanged modification time is already stale
getStaleWhenEqual(idx, f) ==
    IF ~Has(idx.files, f)
    THEN [idx |-> idx, hit |-> FALSE, value |-> <<>>]
    ELSE IF exists[f] /\ mtime[f] < idx.files[f].lastModified
         THEN [idx |-> idx, hit |-> TRUE, value |-> idx.files[f].overrides]
         ELSE [idx |-> [idx EXCEPT !.files = MapDelete(@, {f})],
               hit |-> FALSE, value |-> <<>>]

\* a get that always misses
getNeverHits(idx, f) == [idx |-> idx, hit |-> FALSE, value |-> <<>>]

\* a get that does not compare modification times
getIgnoresMtime(idx, f) ==
    IF Has(idx.files, f)
    THEN [idx |-> idx, hit |-> TRUE, value |-> idx.files[f].overrides]
    ELSE [idx |-> idx, hit |-> FALSE, value |-> <<>>]

\* get(filePath), lines 886-902: the index afterwards and the value returned
get(idx, f) ==
    IF ~Has(idx.files, f)
    THEN [idx |-> idx, hit |-> FALSE, value |-> <<>>]
    ELSE IF exists[f] /\ ~(mtime[f] > idx.files[f].lastModified)
         THEN [idx |-> idx, hit |-> TRUE, value |-> idx.files[f].overrides]
         ELSE [idx |-> [idx EXCEPT !.files = MapDelete(@, {f})],
               hit |-> FALSE, value |-> <<>>]

\* a set that keeps the index as it was when the snapshot cannot be written
setOnlyIfWritable(idx, f, overrides) ==
    IF exists[f] /\ diskOk
    THEN [idx EXCEPT !.files =
              MapSet(@, f, [overrides |-> overrides, lastModified |-> mtime[f]])]
    ELSE idx

\* a set that appends the relations to those of the prior entry
setMerges(idx, f, overrides) ==
    IF exists[f]
    THEN [idx EXCEPT !.files =
              MapSet(@, f, [overrides |-> IF Has(idx.files, f)
                                          THEN idx.files[f].overrides \o overrides
                                          ELSE overrides,
                            lastModified |-> mtime[f]])]
    ELSE idx

\* set(filePath, overrides), lines 904-915, before its persistCache()
set(idx, f, overrides) ==
    IF exists[f]
    THEN [idx EXCEPT !.files =
              MapSet(@, f, [overrides |-> overrides, lastModified |-> mtime[f]])]
    ELSE idx

\* a setDependencies that stores the list as it is given
setDependenciesAsGiven(idx, f, deps) ==
    [idx EXCEPT !.dependencies = MapSet(@, f, deps)]

\* setDependencies(filePath, deps), lines 832-836, before its persistCache()
setDependencies(idx, f, deps) ==
    [idx EXCEPT !.dependencies = MapSet(@, f, Unique(FilterTruthy(deps)))]

\* findDependents that follows the dependencies through one more file
findDependentsTransitive(idx, f) ==
    LET direct == {x \in DOMAIN idx.dependencies :
                      f \in SeqToSet(idx.dependencies[x])} IN
    direct \cup {x \in DOMAIN idx.dependencies :
                    direct \cap SeqToSet(idx.dependencies[x]) # {}}

\* findDependents that reports nothing
findDependentsNone(idx, f) == {}

\* findDependents(filePath), lines 931-939
findDependents(idx, f) ==
    {x \in DOMAIN idx.dependencies : f \in SeqToSet(idx.dependencies[x])}

\* invalidateFile(filePath), lines 917-923, before its persistCache()
invalidateFile(idx, f) ==
    [idx EXCEPT !.files = MapDelete(@, {f} \cup findDependents(idx, f))]

\* a removeFile that also drops the entries of the files depending on it
removeFileAndDependents(idx, f) ==
    [idx EXCEPT !.files = MapDelete(@, {f} \cup findDependents(idx, f)),
                !.dependencies = MapDelete(@, {f})]

\* removeFile(filePath), lines 925-929, before its persistCache()
removeFile(idx, f) ==
    [idx EXCEPT !.files = MapDelete(@, {f}), !.dependencies = MapDelete(@, {f})]

\* delete(filePath), lines 947-950, before its persistCache()
delete(idx, f) == [idx EXCEPT !.files = MapDelete(@, {f})]

\* clear(), lines 952-956, before its persistCache()
clear(idx) == [idx EXCEPT !.files = <<>>, !.dependencies = <<>>]

---------------------------------------------------------------------------
(* PythonOverrideAnalyzer: normalisation and dependency extraction *)

\* lines 1013-1029: class: r.class ?? r.class_name ?? ''
normalize(r) ==
    [class |-> IF r.class # Undef THEN r.class
               ELSE IF r.class_name # Undef THEN r.class_name ELSE "",
     method |-> r.method, line |-> r.line, type |-> r.type,
     base_file_path |-> r.base_file_path, base_line |-> r.base_line,
     child_file_path |-> r.child_file_path, child_line |-> r.child_line]

normalizeAll(raw) == [i \in 1..Len(raw) |-> normalize(raw[i])]

\* a depsOf that collects the base files of child_override relations only
RECURSIVE depsOfChildOverridesOnly(_)
depsOfChildOverridesOnly(overrides) ==
    IF overrides = <<>> THEN <<>>
    ELSE LET o == Head(overrides) IN
         (IF o.type = "child_override" /\ Truthy(o.base_file_path)
          THEN <<o.base_file_path>> ELSE <<>>)
         \o depsOfChildOverridesOnly(Tail(overrides))

\* lines 1034-1038
RECURSIVE depsOf(_)
depsOf(overrides) ==
    IF overrides = <<>> THEN <<>>
    ELSE LET o == Head(overrides) IN
         (IF o.type = "child_override" /\ Truthy(o.base_file_path)
          THEN <<o.base_file_path>> ELSE <<>>)
         \o (IF o.type = "parent_overridden" /\ Truthy(o.child_file_path)
             THEN <<o.child_file_path>> ELSE <<>>)
         \o depsOf(Tail(overrides))

---------------------------------------------------------------------------
(* The file system and the cache operations as handlers *)

NoEntry == [overrides |-> <<>>, lastModified |-> -1]
EntryOf(idx, f) == IF Has(idx.files, f) THEN idx.files[f] ELSE NoEntry

\* since[c], for a call c that has returned: "quiet" until the entry of its
\* file is removed or replaced ("cache") or the file system changes ("fs")
SinceAfter(fsChanged, idx) ==
    [c \in Calls |->
        IF since[c] = "none" THEN "none"
        ELSE IF fsChanged \/ since[c] = "fs" THEN "fs"
        ELSE IF since[c] = "cache"
                \/ EntryOf(idx, file[c]) # EntryOf(projectIndex, file[c])
             THEN "cache"
             ELSE "quiet"]

\* file-system events so far
RECURSIVE SumOver(_, _)
SumOver(fn, S) ==
    IF S = {} THEN 0
    ELSE LET x == CHOOSE y \in S : TRUE IN fn[x] + SumOver(fn, S \ {x})

FsEvents == SumOver(mtime, Files) + Cardinality({f \in Files : ~exists[f]})

\* a file is saved by anybody: new modification time, a change notification
Touch(f) ==
    /\ UNCHANGED <<schedVars, frameVars, debounceVars>>
    /\ exists[f]
    /\ FsEvents < MaxFsEvents
    /\ mtime' = [mtime EXCEPT ![f] = @ + 1]
    /\ watchQ' = watchQ \cup {<<"change", f>>}
    /\ since' = SinceAfter(TRUE, projectIndex)
    /\ UNCHANGED <<exists, osVars, linkVars, callVars, facadeVars, cacheVars,
                   written, lastOp>>

\* a file is deleted: a delete notification
Unlink(f) ==
    /\ UNCHANGED <<schedVars, frameVars, debounceVars>>
    /\ exists[f]
    /\ FsEvents < MaxFsEvents
    /\ exists' = [exists EXCEPT ![f] = FALSE]
    /\ watchQ' = watchQ \cup {<<"delete", f>>}
    /\ since' = SinceAfter(TRUE, projectIndex)
    /\ UNCHANGED <<mtime, osVars, linkVars, callVars, facadeVars, cacheVars,
                   written, lastOp>>

\* workspaceWatcher.onDidChange, lines 842-844
WatcherChange(f) ==
    /\ UNCHANGED <<schedVars, frameVars, debounceVars>>
    /\ LoopIdle
    /\ <<"change", f>> \in watchQ
    /\ watchQ' = watchQ \ {<<"change", f>>}
    /\ projectIndex' = invalidateFile(projectIndex, f)
    /\ snapshot' = persistCache(projectIndex', snapshot)
    /\ lastOp' = CacheOp("invalidate", 0, f, FALSE, <<>>)
    /\ since' = SinceAfter(FALSE, projectIndex')
    /\ UNCHANGED <<diskOk, mtime, exists, osVars, linkVars, callVars, facadeVars,
                   written>>

\* workspaceWatcher.onDidDelete, lines 846-848
WatcherDelete(f) ==
    /\ UNCHANGED <<schedVars, frameVars, debounceVars>>
    /\ LoopIdle
    /\ <<"delete", f>> \in watchQ
    /\ watchQ' = watchQ \ {<<"delete", f>>}
    /\ projectIndex' = removeFile(projectIndex, f)
    /\ snapshot' = persistCache(projectIndex', snapshot)
    /\ lastOp' = CacheOp("remove", 0, f, FALSE, <<>>)
    /\ since' = SinceAfter(FALSE, projectIndex')
    /\ UNCHANGED <<diskOk, mtime, exists, osVars, linkVars, callVars, facadeVars,
                   written>>

\* relation lists and dependency lists handed to the cache directly
RelLists(f) == {<<>>, normalizeAll(WorkerAnalyze(f))}
DepLists == {<<>>, <<FileB>>, <<FileB, "", FileA, FileB>>, <<Undef, FileA>>}

CacheGet(f) ==
    /\ UNCHANGED <<schedVars, frameVars, debounceVars>>
    /\ LoopIdle
    /\ projectIndex' = get(projectIndex, f).idx
    /\ lastOp' = CacheOp("get", 0, f, get(projectIndex, f).hit, get(projectIndex, f).value)
    /\ since' = SinceAfter(FALSE, projectIndex')
    /\ UNCHANGED <<snapshot, diskOk, fsVars, osVars, linkVars, callVars, facadeVars,
                   written>>

CacheSet(f, overrides) ==
    /\ UNCHANGED <<schedVars, frameVars, debounceVars>>
    /\ LoopIdle
    /\ projectIndex' = set(projectIndex, f, overrides)
    /\ snapshot' = IF exists[f] THEN persistCache(projectIndex', snapshot)
                   ELSE snapshot
    /\ lastOp' = CacheOp("set", 0, f, FALSE, overrides)
    /\ since' = SinceAfter(FALSE, projectIndex')
    /\ UNCHANGED <<diskOk, fsVars, osVars, linkVars, callVars, facadeVars, written>>

CacheSetDependencies(f, deps) ==
    /\ UNCHANGED <<schedVars, frameVars, debounceVars>>
    /\ LoopIdle
    /\ projectIndex' = setDependencies(projectIndex, f, deps)
    /\ snapshot' = persistCache(projectIndex', snapshot)
    /\ lastOp' = CacheOp("setDependencies", 0, f, FALSE, deps)
    /\ since' = SinceAfter(FALSE, projectIndex')
    /\ UNCHANGED <<diskOk, fsVars, osVars, linkVars, callVars, facadeVars, written>>

\* clearCache(filePath), lines 1079-1085
ClearCache(f) ==
    /\ UNCHANGED <<schedVars, frameVars, debounceVars>>
    /\ LoopIdle
    /\ projectIndex' = IF f # "" THEN delete(projectIndex, f) ELSE clear(projectIndex)
    /\ snapshot' = persistCache(projectIndex', snapshot)
    /\ lastOp' = CacheOp(IF f # "" THEN "delete" ELSE "clear", 0, f, FALSE, <<>>)
    /\ since' = SinceAfter(FALSE, projectIndex')
    /\ UNCHANGED <<diskOk, fsVars, osVars, linkVars, callVars, facadeVars, written>>

FileSystem == \E f \in Files : Touch(f) \/ Unlink(f)

Watcher == \E f \in Files : WatcherChange(f) \/ WatcherDelete(f)

\* the storage of the snapshot starts failing (disk full, directory made
\* read-only): writeFileSync of line 880 throws while diskOk is false
Disk ==
    /\ diskOk
    /\ diskOk' = FALSE
    /\ UNCHANGED <<projectIndex, snapshot, schedVars, frameVars, debounceVars, osVars, linkVars,
                   callVars, facadeVars, fsVars, since, written, lastOp>>

\* The cache on a storage that may fail
NextDisk ==
    \/ FileSystem
    \/ Watcher
    \/ Disk
    \/ \E f \in Files : CacheSet(f, normalizeAll(WorkerAnalyze(f)))
    \/ \E f \in Files : CacheSetDependencies(f, <<FileB, "", FileB>>)
    \/ ClearCache("")

\* A third file of the workspace, analysed once and never saved or deleted
\* while the others are: it only appears in the dependencies mapping.
FileC == "/p/c.py"
ChainDepLists == {<<FileB>>, <<FileC>>}

\* The cache with dependency chains: /p/a.py -> /p/c.py -> /p/b.py is possible
NextChain ==
    \/ FileSystem
    \/ Watcher
    \/ \E f \in Files : \E o \in RelLists(f) : CacheSet(f, o)
    \/ \E f \in Files \cup {FileC}, d \in ChainDepLists : CacheSetDependencies(f, d)

NextCache ==
    \/ FileSystem
    \/ Watcher
    \/ \E f \in Files : CacheGet(f)
    \/ \E f \in Files : \E o \in RelLists(f) : CacheSet(f, o)
    \/ \E f \in Files, d \in DepLists : CacheSetDependencies(f, d)
    \/ \E f \in Files \cup {""} : ClearCache(f)

---------------------------------------------------------------------------
(* PythonOverrideAnalyzer.analyzeFile: resolve(filePath) *)

Returned(v, f) == [value |-> v, mtime |-> mtime[f]]

\* processManager.analyzeFile(filePath) up to its first suspension, lines
\* 755-773, for call c: pcBase / qBase as the calling handler leaves them
analyzeFileEnter(c, pcBase, qBase) ==
    IF isReady
    THEN /\ register(c)
         /\ pc' = [pcBase EXCEPT ![c] = "pending"]
         /\ microQ' = qBase
         /\ waitQ' = waitQ
    ELSE /\ pc' = [pcBase EXCEPT ![c] = "waitReady"]
         /\ IF readyResolved
            THEN microQ' = Append(qBase, c) /\ waitQ' = waitQ
            ELSE waitQ' = Append(waitQ, c) /\ microQ' = qBase
         /\ UNCHANGED <<messageId, callId, timers, pendingRequests, stdin, written>>

\* resolve(filePath) is called, lines 999-1010 and initialize(), lines 971-989.
\* findPythonPath() suspends on nothing outside the loop, so initialize() runs
\* up to 'await this.processManager.start()' before any other handler.
ResolveCall(c, f, st) ==
    /\ UNCHANGED <<schedVars, frameVars, debounceVars>>
    /\ LoopIdle
    /\ pc[c] = "idle"
    /\ \A d \in Calls : d < c => pc[d] # "idle"
    /\ file' = [file EXCEPT ![c] = f]
    /\ LET r == get(projectIndex, f) IN
       /\ projectIndex' = r.idx
       /\ lastOp' = CacheOp("resolve", c, f, r.hit, r.value)
       /\ IF r.hit
          THEN /\ pc' = [pc EXCEPT ![c] = "returned"]
               /\ ret' = [ret EXCEPT ![c] = Returned(r.value, f)]
               /\ since' = [SinceAfter(FALSE, r.idx) EXCEPT ![c] = "quiet"]
               /\ UNCHANGED <<osVars, linkVars, callId, outcome, microQ, written,
                              processManager, isInitialized, orphanWait>>
          ELSE /\ since' = SinceAfter(FALSE, r.idx)
               /\ ret' = ret
               /\ IF ~isInitialized
                  THEN /\ CanSpawn
                       /\ processManager' = processManager + 1
                       /\ orphanWait' = IF processManager # 0
                                        THEN [orphanWait EXCEPT ![processManager] = waitQ]
                                        ELSE orphanWait
                       /\ pythonProcess' = NewProc
                       /\ procState' = [procState EXCEPT ![NewProc] = st]
                       /\ procMgr' = [procMgr EXCEPT ![NewProc] = processManager + 1]
                       /\ messageId' = 0
                       /\ pendingRequests' = {}
                       /\ timers' = {}
                       /\ isReady' = FALSE
                       /\ readyResolved' = FALSE
                       /\ waitQ' = <<c>>
                       /\ pc' = [pc EXCEPT ![c] = "initWait"]
                       /\ UNCHANGED <<procReady, stdin, stdout, restartsWaiting, callId,
                                      outcome, microQ, written, isInitialized>>
                  ELSE /\ st = "running"
                       /\ analyzeFileEnter(c, pc, microQ)
                       /\ UNCHANGED <<procState, procMgr, procReady, stdout,
                                      pythonProcess, isReady, readyResolved,
                                      restartsWaiting, outcome, processManager,
                                      isInitialized, orphanWait>>
    /\ UNCHANGED <<snapshot, diskOk, fsVars>>

\* lines 1011-1041: the relations arrived
resolveStore(c) ==
    LET f == file[c]
        overrides == normalizeAll(outcome[c].value)
        idx1 == set(projectIndex, f, overrides)
        snap1 == IF exists[f] THEN persistCache(idx1, snapshot) ELSE snapshot
        idx2 == setDependencies(idx1, f, depsOf(overrides))
    IN /\ projectIndex' = idx2
       /\ snapshot' = persistCache(idx2, snap1)
       /\ ret' = [ret EXCEPT ![c] = Returned(overrides, f)]
       /\ since' = [SinceAfter(FALSE, idx2) EXCEPT ![c] =
                        IF EntryOf(idx2, f).overrides = overrides
                           /\ Has(idx2.files, f)
                        THEN "quiet" ELSE "cache"]

\* a failure path that leaves the Link as it is
resolveFailNoRestart(c) ==
    /\ pc' = [pc EXCEPT ![c] = "restartDelay"]
    /\ microQ' = Tail(microQ)
    /\ UNCHANGED <<procState, isReady, pythonProcess, timers, outcome,
                   pendingRequests, projectIndex, snapshot, ret, since>>

\* a failure path that caches an empty result
resolveFailCachesEmpty(c) ==
    /\ dispose([pc EXCEPT ![c] = "restartDelay"], Tail(microQ))
    /\ projectIndex' = setDependencies(set(projectIndex, file[c], <<>>), file[c], <<>>)
    /\ since' = SinceAfter(FALSE, projectIndex')
    /\ UNCHANGED <<snapshot, ret>>

\* lines 1042-1048: analyze failed; restart() runs up to its delay
resolveFail(c) ==
    /\ dispose([pc EXCEPT ![c] = "restartDelay"], Tail(microQ))
    /\ UNCHANGED <<projectIndex, snapshot, ret, since>>

\* a continuation of resolve runs
FacadeResume(c) ==
    /\ UNCHANGED <<schedVars, frameVars, debounceVars>>
    /\ microQ # <<>> /\ Head(microQ) = c
    /\ lastOp' = CacheOp("resume", c, file[c], FALSE, <<>>)
    /\ file' = file
    /\ CASE pc[c] = "initWait" ->
              /\ isInitialized' = TRUE
              /\ analyzeFileEnter(c, pc, Tail(microQ))
              /\ UNCHANGED <<procState, pythonProcess, isReady, outcome,
                             projectIndex, snapshot, ret, since>>
         [] pc[c] = "waitReady" ->
              /\ register(c)
              /\ pc' = [pc EXCEPT ![c] = "pending"]
              /\ microQ' = Tail(microQ)
              /\ UNCHANGED <<procState, pythonProcess, isReady, outcome, waitQ,
                             isInitialized, projectIndex, snapshot, ret, since>>
         [] pc[c] = "settled" /\ outcome[c].kind = "result" ->
              /\ resolveStore(c)
              /\ pc' = [pc EXCEPT ![c] = "returned"]
              /\ microQ' = Tail(microQ)
              /\ UNCHANGED <<procState, pythonProcess, isReady, outcome, waitQ,
                             isInitialized, messageId, callId, timers,
                             pendingRequests, stdin, written>>
         [] pc[c] = "settled" /\ outcome[c].kind = "error" ->
              /\ resolveFail(c)
              /\ UNCHANGED <<waitQ, isInitialized, messageId, callId, stdin, written>>
         [] pc[c] = "restartWait" ->
              /\ pc' = [pc EXCEPT ![c] = "returned"]
              /\ ret' = [ret EXCEPT ![c] = Returned(<<>>, file[c])]
              /\ since' = [since EXCEPT ![c] = "cache"]
              /\ microQ' = Tail(microQ)
              /\ UNCHANGED <<procState, pythonProcess, isReady, outcome, waitQ,
                             isInitialized, messageId, callId, timers,
                             pendingRequests, stdin, written, projectIndex, snapshot>>
    /\ UNCHANGED <<procMgr, procReady, stdout, readyResolved, restartsWaiting,
                   processManager, orphanWait, diskOk, fsVars>>

\* the delay of restart() is over, lines 803 and 1045-1047
FacadeRestartTimer(c, st) ==
    /\ UNCHANGED <<schedVars, frameVars, debounceVars>>
    /\ LoopIdle
    /\ pc[c] = "restartDelay"
    /\ pythonProcess # 0 \/ CanSpawn
    /\ start(processManager, st)
    /\ lastOp' = CacheOp("restartTimer", c, file[c], FALSE, <<>>)
    /\ IF readyResolved
       THEN /\ pc' = [pc EXCEPT ![c] = "returned"]
            /\ ret' = [ret EXCEPT ![c] = Returned(<<>>, file[c])]
            /\ since' = [since EXCEPT ![c] = "cache"]
            /\ waitQ' = waitQ
       ELSE /\ pc' = [pc EXCEPT ![c] = "restartWait"]
            /\ waitQ' = Append(waitQ, c)
            /\ UNCHANGED <<ret, since>>
    /\ UNCHANGED <<procReady, stdin, stdout, messageId, pendingRequests, timers,
                   isReady, readyResolved, restartsWaiting, file, callId, outcome,
                   microQ, processManager, isInitialized, orphanWait, fsVars,
                   cacheVars, written>>

\* 'data' on the stdout of a process of an instance the Facade no longer refers
\* to: only the initialize() calls awaiting that instance notice
OrphanData(p, line) ==
    /\ UNCHANGED <<schedVars, frameVars, debounceVars>>
    /\ LoopIdle \/ (lastOp.op = "data" /\ lastOp.proc = p)
    /\ procMgr[p] # 0 /\ procMgr[p] # processManager
    /\ line \in stdout[p]
    /\ stdout' = [stdout EXCEPT ![p] = @ \ {line}]
    /\ IF line.type = "ready"
       THEN /\ microQ' = microQ \o orphanWait[procMgr[p]]
            /\ orphanWait' = [orphanWait EXCEPT ![procMgr[p]] = <<>>]
       ELSE UNCHANGED <<microQ, orphanWait>>
    /\ lastOp' = Op("data", 0, p, line)
    /\ UNCHANGED <<procState, procMgr, procReady, stdin, linkVars, pc, file, callId,
                   outcome, processManager, isInitialized, ret, fsVars, cacheVars,
                   since, written>>

\* 'exit' or 'error' of such a process
OrphanExit(p) ==
    /\ UNCHANGED <<schedVars, frameVars, debounceVars>>
    /\ LoopIdle
    /\ procMgr[p] # 0 /\ procMgr[p] # processManager
    /\ procState[p] \in {"running", "killed", "failed"}
    /\ procState' = [procState EXCEPT ![p] = "exited"]
    /\ stdin' = [stdin EXCEPT ![p] = {}]
    /\ lastOp' = Op("orphanExit", 0, p, NoLine)
    /\ UNCHANGED <<procMgr, procReady, stdout, linkVars, callVars, otherVars, written>>

\* resolve is called when no earlier call is outstanding
Sequential(c) == \A d \in Calls : d < c => pc[d] = "returned"

\* the files change at most MaxResolveFsEvents times while calls are resolved
FewFsEvents == FsEvents < MaxResolveFsEvents

\* one caller awaiting each resolve before the next
Next ==
    \/ \E c \in Calls, f \in Files, st \in {"running", "failed"} :
          Sequential(c) /\ (isInitialized \/ MaySpawn) /\ ResolveCall(c, f, st)
    \/ \E c \in Calls : FacadeResume(c)
    \/ \E c \in Calls, st \in {"running", "failed"} :
          MaySpawn /\ FacadeRestartTimer(c, st)
    \/ \E id \in Ids : Timeout(id)
    \/ \E p \in Procs : \E line \in stdout[p] : StdoutData(p, line)
    \/ \E p \in Procs : ProcExit(p)
    \/ \E p \in Procs : ProcError(p)
    \/ Worker
    \/ FewFsEvents /\ FileSystem
    \/ Watcher

\* callers that overlap, the files left alone
NextConcurrent ==
    \/ \E c \in Calls, f \in Files, st \in {"running", "failed"} :
          (isInitialized \/ SpawnsLeft) /\ ResolveCall(c, f, st)
    \/ \E c \in Calls : FacadeResume(c)
    \/ \E c \in Calls, st \in {"running", "failed"} :
          MaySpawn /\ FacadeRestartTimer(c, st)
    \/ \E id \in Ids : Timeout(id)
    \/ \E p \in Procs : \E line \in stdout[p] : StdoutData(p, line)
    \/ \E p \in Procs : ProcExit(p)
    \/ \E p \in Procs : ProcError(p)
    \/ \E p \in Procs : \E line \in stdout[p] : OrphanData(p, line)
    \/ \E p \in Procs : OrphanExit(p)
    \/ Worker

---------------------------------------------------------------------------
(* DocumentManager: the analysis scheduler *)

\* delays of the four triggers, lines 1473, 1480, 1488 and 1495
OpenDelay == 100
ActiveEditorDelay == 50
SaveDelay == 200
ChangeDelay == 1000

SchedOp(name, f, delay, n) ==
    [op |-> name, call |-> 0, proc |-> 0, line |-> NoLine, pend |-> {},
     file |-> f, had |-> {}, hit |-> FALSE, value |-> <<>>, delay |-> delay,
     burst |-> n]

\* a trigger for f bookkept
Triggered(f, delay) ==
    /\ bursts' = IF burst[f] = <<>> THEN [bursts EXCEPT ![f] = @ + 1] ELSE bursts
    /\ burst' = [burst EXCEPT ![f] = Append(@, delay)]
    /\ lastOp' = SchedOp("schedule", f, delay, Append(burst[f], delay))

\* a scheduleAnalysis that leaves the earlier timer armed
scheduleAnalysisKeepsOld(f, delay) ==
    /\ nextTimer' = nextTimer + 1
    /\ schedTimers' = schedTimers \cup {[id |-> nextTimer + 1, file |-> f, delay |-> delay]}
    /\ analysisQueue' = MapSet(analysisQueue, f, nextTimer + 1)
    /\ Triggered(f, delay)

\* a scheduleAnalysis that does not record the new timer
scheduleAnalysisUnrecorded(f, delay) ==
    /\ nextTimer' = nextTimer + 1
    /\ schedTimers' = {t \in schedTimers :
                          ~(Has(analysisQueue, f) /\ t.id = analysisQueue[f])}
                      \cup {[id |-> nextTimer + 1, file |-> f, delay |-> delay]}
    /\ analysisQueue' = analysisQueue
    /\ Triggered(f, delay)

\* scheduleAnalysis(filePath, delay), lines 1513-1527
scheduleAnalysis(f, delay) ==
    /\ nextTimer' = nextTimer + 1
    /\ schedTimers' = {t \in schedTimers :
                          ~(Has(analysisQueue, f) /\ t.id = analysisQueue[f])}
                      \cup {[id |-> nextTimer + 1, file |-> f, delay |-> delay]}
    /\ analysisQueue' = MapSet(analysisQueue, f, nextTimer + 1)
    /\ Triggered(f, delay)

\* an event listener of setupEventListeners may run
Listening == LoopIdle /\ ~disposed /\ nextTimer < MaxSchedules

\* onDidOpenTextDocument, lines 1471-1475
OnDidOpenTextDocument(f) ==
    /\ Listening
    /\ scheduleAnalysis(f, OpenDelay)
    /\ UNCHANGED <<performed, disposed, frameVars, debounceVars, osVars, linkVars, callVars,
                   otherVars, written>>

\* onDidChangeActiveTextEditor, lines 1478-1482
OnDidChangeActiveTextEditor(f) ==
    /\ Listening
    /\ scheduleAnalysis(f, ActiveEditorDelay)
    /\ UNCHANGED <<performed, disposed, frameVars, debounceVars, osVars, linkVars, callVars,
                   otherVars, written>>

\* onDidSaveTextDocument, lines 1485-1490: clearCache(fileName) first
OnDidSaveTextDocument(f) ==
    /\ Listening
    /\ projectIndex' = delete(projectIndex, f)
    /\ snapshot' = persistCache(projectIndex', snapshot)
    /\ since' = SinceAfter(FALSE, projectIndex')
    /\ scheduleAnalysis(f, SaveDelay)
    /\ UNCHANGED <<performed, disposed, frameVars, debounceVars, osVars, linkVars, callVars,
                   facadeVars, fsVars, diskOk, written>>

\* onDidChangeTextDocument, lines 1493-1497
OnDidChangeTextDocument(f) ==
    /\ Listening
    /\ scheduleAnalysis(f, ChangeDelay)
    /\ UNCHANGED <<performed, disposed, frameVars, debounceVars, osVars, linkVars, callVars,
                   otherVars, written>>

\* a document is closed.  setupEventListeners, lines 1469-1510, registers no
\* listener for onDidCloseTextDocument: no code of the DocumentManager runs.
CloseTextDocument(f) ==
    /\ LoopIdle
    /\ lastOp' = SchedOp("close", f, 0, burst[f])
    /\ UNCHANGED <<schedVars, frameVars, debounceVars, osVars, linkVars, callVars, otherVars,
                   written>>

\* the callback of a timer of scheduleAnalysis, lines 1521-1524:
\* performAnalysis(filePath) is entered, then the entry of filePath is deleted
TimerFires(t) ==
    /\ LoopIdle
    /\ t \in schedTimers
    /\ schedTimers' = schedTimers \ {t}
    /\ performed' = [performed EXCEPT ![t.file] = @ + 1]
    /\ analysisQueue' = MapDelete(analysisQueue, {t.file})
    /\ burst' = [burst EXCEPT ![t.file] = <<>>]
    /\ lastOp' = SchedOp("fire", t.file, t.delay, burst[t.file])
    /\ UNCHANGED <<nextTimer, bursts, disposed, frameVars, debounceVars, osVars, linkVars,
                   callVars, otherVars, written>>

\* DocumentManager.dispose(), lines 1554-1569, with PythonOverrideAnalyzer
\* .dispose(), lines 1087-1090, and IntelligentCache.dispose(), lines 941-944
DocumentManagerDispose ==
    /\ LoopIdle
    /\ ~disposed
    /\ disposed' = TRUE
    /\ schedTimers' = {}
    /\ analysisQueue' = <<>>
    /\ IF processManager # 0
       THEN dispose(pc, microQ)
       ELSE UNCHANGED <<procState, isReady, pythonProcess, timers, outcome, pc,
                        microQ, pendingRequests>>
    /\ snapshot' = persistCache(projectIndex, snapshot)
    /\ lastOp' = SchedOp("dispose", "", 0, <<>>)
    /\ UNCHANGED <<nextTimer, performed, bursts, burst, frameVars, debounceVars, procMgr, procReady, stdin,
                   stdout, messageId, readyResolved, waitQ, restartsWaiting, file,
                   callId, facadeVars, fsVars, projectIndex, diskOk, since, written>>

NextSched ==
    \/ \E f \in Files : OnDidOpenTextDocument(f)
    \/ \E f \in Files : OnDidChangeActiveTextEditor(f)
    \/ \E f \in Files : OnDidSaveTextDocument(f)
    \/ \E f \in Files : OnDidChangeTextDocument(f)
    \/ \E f \in Files : CloseTextDocument(f)
    \/ \E t \in schedTimers : TimerFires(t)
    \/ DocumentManagerDispose

---------------------------------------------------------------------------
(* Specifications *)

Init ==
    /\ procState = [p \in Procs |-> "none"]
    /\ procMgr = [p \in Procs |-> 0]
    /\ procReady = [p \in Procs |-> FALSE]
    /\ stdin = [p \in Procs |-> {}]
    /\ stdout = [p \in Procs |-> {}]
    /\ pythonProcess = 0
    /\ messageId = 0
    /\ pendingRequests = {}
    /\ timers = {}
    /\ isReady = FALSE
    /\ readyResolved = FALSE
    /\ waitQ = <<>>
    /\ restartsWaiting = 0
    /\ pc = [c \in Calls |-> "idle"]
    /\ file = [c \in Calls |-> ""]
    /\ callId = [c \in Calls |-> 0]
    /\ outcome = [c \in Calls |-> NoOutcome]
    /\ microQ = <<>>
    /\ mtime = [f \in Files |-> 0]
    /\ exists = [f \in Files |-> TRUE]
    /\ watchQ = {}
    /\ projectIndex = EmptyIndex
    /\ snapshot = NoSnapshot
    /\ diskOk = TRUE
    /\ processManager = 0
    /\ isInitialized = FALSE
    /\ orphanWait = [m \in Procs |-> <<>>]
    /\ ret = [c \in Calls |-> [value |-> <<>>, mtime |-> 0]]
    /\ since = [c \in Calls |-> "none"]
    /\ analysisQueue = <<>>
    /\ schedTimers = {}
    /\ nextTimer = 0
    /\ disposed = FALSE
    /\ performed = [f \in Files |-> 0]
    /\ bursts = [f \in Files |-> 0]
    /\ burst = [f \in Files |-> <<>>]
    /\ pipe = <<>>
    /\ received = <<>>
    /\ outputBuffer = <<>>
    /\ handed = <<>>
    /\ debounceTimers = [f \in Files |-> 0]
    /\ timeouts = <<>>
    /\ written = {}
    /\ lastOp = CacheOp("none", 0, "", FALSE, <<>>)

\* A PythonProcessManager just constructed (lines 646-658), driven directly.
InitLink ==
    \E mgr \in {1} :
       /\ processManager = mgr
       /\ isInitialized = FALSE
       /\ orphanWait = [m \in Procs |-> <<>>]
       /\ ret = [c \in Calls |-> [value |-> <<>>, mtime |-> 0]]
       /\ since = [c \in Calls |-> "none"]
       /\ analysisQueue = <<>>
       /\ schedTimers = {}
       /\ nextTimer = 0
       /\ disposed = FALSE
       /\ performed = [f \in Files |-> 0]
       /\ bursts = [f \in Files |-> 0]
       /\ burst = [f \in Files |-> <<>>]
       /\ procState = [p \in Procs |-> "none"]
       /\ procMgr = [p \in Procs |-> 0]
       /\ procReady = [p \in Procs |-> FALSE]
       /\ stdin = [p \in Procs |-> {}]
       /\ stdout = [p \in Procs |-> {}]
       /\ pythonProcess = 0
       /\ messageId = 0
       /\ pendingRequests = {}
       /\ timers = {}
       /\ isReady = FALSE
       /\ readyResolved = FALSE
       /\ waitQ = <<>>
       /\ restartsWaiting = 0
       /\ pc = [c \in Calls |-> "idle"]
       /\ file = [c \in Calls |-> ""]
       /\ callId = [c \in Calls |-> 0]
       /\ outcome = [c \in Calls |-> NoOutcome]
       /\ microQ = <<>>
       /\ mtime = [f \in Files |-> 0]
       /\ exists = [f \in Files |-> TRUE]
       /\ watchQ = {}
       /\ projectIndex = EmptyIndex
       /\ snapshot = NoSnapshot
       /\ diskOk = TRUE
       /\ pipe = <<>>
       /\ received = <<>>
       /\ outputBuffer = <<>>
       /\ handed = <<>>
       /\ debounceTimers = [f \in Files |-> 0]
       /\ timeouts = <<>>
    /\ debounceTimers = [f \in Files |-> 0]
    /\ timeouts = <<>>
       /\ written = {}
       /\ lastOp = CacheOp("none", 0, "", FALSE, <<>>)

NextLink ==
    \/ \E st \in {"running", "failed"} : MaySpawn /\ StartCall(st)
    \/ DisposeCall
    \/ RestartCall
    \/ \E st \in {"running", "failed"} : MaySpawn /\ RestartTimer(st)
    \/ \E c \in Calls, f \in Files : AnalyzeCall(c, f)
    \/ \E id \in Ids : Timeout(id)
    \/ \E p \in Procs : \E line \in stdout[p] : StdoutData(p, line)
    \/ \E p \in Procs : StrayData(p)
    \/ \E p \in Procs : GarbageData(p)
    \/ \E p \in Procs : ProcExit(p)
    \/ \E p \in Procs : ProcError(p)
    \/ \E c \in Calls : Resume(c)
    \/ Worker

SpecLink == InitLink /\ [][NextLink]_vars

\* The Link with a worker that also answers with an id alone; no restart and
\* no dispose
NextResponses ==
    \/ \E st \in {"running", "failed"} : MaySpawn /\ StartCall(st)
    \/ \E c \in Calls, f \in Files : AnalyzeCall(c, f)
    \/ \E id \in Ids : Timeout(id)
    \/ \E p \in Procs : \E line \in stdout[p] : StdoutData(p, line)
    \/ \E p \in Procs : ProcExit(p)
    \/ \E p \in Procs : ProcError(p)
    \/ \E c \in Calls : Resume(c)
    \/ Worker
    \/ \E p \in Procs : \E req \in stdin[p] : WorkerRespondsBare(p, req)

SpecResponses == InitLink /\ [][NextResponses]_vars

\* What the event loop, the OS and a live worker guarantee: a runnable
\* continuation runs, an armed timer fires, an emitted line, the 'error' of a
\* failed spawn and the 'exit' of a killed process are delivered, and a worker
\* that stays alive answers.  Calls made on the Link and crashes of a running
\* worker are free to happen or not.
LinkFairness ==
    /\ \A c \in Calls : WF_vars(Resume(c))
    /\ \A id \in Ids : WF_vars(Timeout(id))
    /\ \A p \in Procs : WF_vars(\E line \in stdout[p] : StdoutData(p, line))
    /\ \A p \in Procs : WF_vars(ProcError(p))
    /\ \A p \in Procs : WF_vars(procState[p] = "killed" /\ ProcExit(p))
    /\ WF_vars(\E st \in {"running", "failed"} : MaySpawn /\ RestartTimer(st))
    /\ WF_vars(Worker)

FairSpecLink == SpecLink /\ LinkFairness

\* The Facade with its Link and Cache, no snapshot file at startup.
Spec == Init /\ [][Next]_vars
SpecConcurrent == Init /\ [][NextConcurrent]_vars

\* The same guarantees of the event loop, the OS and a live worker for the
\* Facade, and delivery of the watcher's notifications.  Calls of resolve,
\* changes of the files and crashes of a running worker are free.
FacadeFairness ==
    /\ \A c \in Calls : WF_vars(FacadeResume(c))
    /\ \A c \in Calls :
          WF_vars(\E st \in {"running", "failed"} : MaySpawn /\ FacadeRestartTimer(c, st))
    /\ \A id \in Ids : WF_vars(Timeout(id))
    /\ \A p \in Procs : WF_vars(\E line \in stdout[p] : StdoutData(p, line))
    /\ \A p \in Procs : WF_vars(ProcError(p))
    /\ \A p \in Procs : WF_vars(procState[p] = "killed" /\ ProcExit(p))
    /\ WF_vars(Worker)
    /\ WF_vars(Watcher)

FairSpec == Spec /\ FacadeFairness

\* The stdout handler alone, under every chunking of what the worker prints.
SpecFraming == Init /\ [][NextFraming]_vars

\* The life cycle of the Link's process alone: start, restart, dispose and the
\* events of the processes, no analyze calls.
NextLifecycle ==
    \/ \E st \in {"running", "failed"} : StartCall(st)
    \/ DisposeCall
    \/ RestartCall
    \/ \E st \in {"running", "failed"} : RestartTimer(st)
    \/ \E p \in Procs : WorkerReady(p)
    \/ \E p \in Procs : \E line \in stdout[p] : StdoutData(p, line)
    \/ \E p \in Procs : ProcExit(p)
    \/ \E p \in Procs : ProcError(p)

SpecLifecycle == InitLink /\ [][NextLifecycle]_vars

\* A DocumentManager just constructed, its listeners registered.
SpecSched == Init /\ [][NextSched]_vars

\* A timer that stays armed fires.
FairSpecSched ==
    SpecSched /\ \A f \in Files : WF_vars(\E t \in schedTimers : t.file = f /\ TimerFires(t))

\* The constructor of IntelligentCache, lines 826-829, over the snapshot file
\* it finds; the files of the workspace change as they please meanwhile.
GoodFiles ==
    IterablePart(<<PairItem(FileA, JsonValue("entry",
                       [overrides |-> <<>>, lastModified |-> 0], <<>>))>>)
GoodDependencies ==
    IterablePart(<<PairItem(FileA, JsonValue("paths",
                       [overrides |-> <<>>, lastModified |-> 0], <<FileB>>))>>)

SnapshotFiles ==
    {NoSnapshot}
    \cup {[present |-> TRUE, data |-> Document(k, MissingPart, MissingPart, 0)] :
              k \in {"unreadable", "garbage", "null", "scalar"}}
    \cup {[present |-> TRUE, data |-> Document("object", f, d, 0)] :
              f \in {MissingPart, NotIterablePart, GoodFiles,
                     IterablePart(GoodFiles.items \o <<ScalarItem>>),
                     IterablePart(<<ScalarItem>>),
                     IterablePart(<<PairItem(FileA, NumberValue)>>)},
              d \in {MissingPart, NotIterablePart, GoodDependencies,
                     IterablePart(<<ScalarItem>>),
                     IterablePart(<<PairItem(FileA, NumberValue)>>)}}

\* every part of the document has the shape persistCache writes
WellFormedPart(part, type) ==
    /\ part.kind # "notIterable"
    /\ \A i \in 1..Len(part.items) :
          part.items[i].isObject /\ part.items[i].value.type = type
WellFormed(snap) ==
    /\ snap.present
    /\ snap.data.kind = "object"
    /\ WellFormedPart(snap.data.files, "entry")
    /\ WellFormedPart(snap.data.dependencies, "paths")

InitStartup ==
    \E snap \in SnapshotFiles :
       /\ snapshot = snap
       /\ projectIndex = EmptyIndex
       /\ diskOk = TRUE
       /\ mtime = [f \in Files |-> 0]
       /\ exists = [f \in Files |-> TRUE]
       /\ watchQ = {}
       /\ processManager = 0
       /\ isInitialized = FALSE
       /\ orphanWait = [m \in Procs |-> <<>>]
       /\ ret = [c \in Calls |-> [value |-> <<>>, mtime |-> 0]]
       /\ since = [c \in Calls |-> "none"]
       /\ analysisQueue = <<>>
       /\ schedTimers = {}
       /\ nextTimer = 0
       /\ disposed = FALSE
       /\ performed = [f \in Files |-> 0]
       /\ bursts = [f \in Files |-> 0]
       /\ burst = [f \in Files |-> <<>>]
       /\ procState = [p \in Procs |-> "none"]
       /\ procMgr = [p \in Procs |-> 0]
       /\ procReady = [p \in Procs |-> FALSE]
       /\ stdin = [p \in Procs |-> {}]
       /\ stdout = [p \in Procs |-> {}]
       /\ pythonProcess = 0
       /\ messageId = 0
       /\ pendingRequests = {}
       /\ timers = {}
       /\ isReady = FALSE
       /\ readyResolved = FALSE
       /\ waitQ = <<>>
       /\ restartsWaiting = 0
       /\ pc = [c \in Calls |-> "idle"]
       /\ file = [c \in Calls |-> ""]
       /\ callId = [c \in Calls |-> 0]
       /\ outcome = [c \in Calls |-> NoOutcome]
       /\ microQ = <<>>
       /\ pipe = <<>>
       /\ received = <<>>
       /\ outputBuffer = <<>>
       /\ handed = <<>>
       /\ debounceTimers = [f \in Files |-> 0]
       /\ timeouts = <<>>
    /\ debounceTimers = [f \in Files |-> 0]
    /\ timeouts = <<>>
       /\ written = {}
       /\ lastOp = CacheOp("none", 0, "", FALSE, <<>>)

\* new IntelligentCache(context), lines 826-829: loadCache()
LoadCache ==
    /\ UNCHANGED <<schedVars, frameVars, debounceVars>>
    /\ lastOp.op = "none"
    /\ projectIndex' = loadCache(snapshot, projectIndex)
    /\ lastOp' = CacheOp("load", 0, "", FALSE, <<>>)
    /\ UNCHANGED <<snapshot, diskOk, fsVars, osVars, linkVars, callVars, facadeVars,
                   since, written>>

NextStartup ==
    \/ LoadCache
    \/ FileSystem

SpecStartup == InitStartup /\ [][NextStartup]_vars

\* An IntelligentCache constructed without a snapshot file, driven directly.
SpecCache == Init /\ [][NextCache]_vars
SpecChain == Init /\ [][NextChain]_vars
SpecDisk == Init /\ [][NextDisk]_vars

---------------------------------------------------------------------------
(* Claims about the Analysis Worker Link *)

\* the stdout lines handed to processOutput by this step
Delivered == UNION {stdout[p] \ stdout'[p] : p \in Procs}

\* C1: when a worker process of the Link exits or errors, every request pending
\* at that moment is rejected with 'Python process terminated', the pending
\* table is empty afterwards, isReady is false and pythonProcess is null.
C1_ExitFailsAllPending ==
    [][\A p \in Procs :
          (procMgr[p] = processManager /\ procState[p] # "exited"
              /\ procState'[p] = "exited")
          => /\ \A id \in pendingRequests :
                    outcome'[CallerOf(id)] = Rejected(TerminatedMsg)
             /\ pendingRequests' = {}
             /\ isReady' = FALSE
             /\ pythonProcess' = 0]_vars

\* C1 witness: the process exited with both requests req_1, req_2 pending and
\* both callers hold the termination error.
C1_Witness ==
    /\ lastOp.op = "exit"
    /\ lastOp.pend = {1, 2}
    /\ \A c \in Calls : outcome[c] = Rejected(TerminatedMsg)
    /\ pendingRequests = {}

\* C2: a caller is settled by a response only through the line that carries
\* the id of its own request, and receives that line's result (the worker's
\* answer for the caller's own file) or that line's error, whatever the order
\* in which the responses arrive.
C2_MatchedById ==
    [][\A c \in Calls :
          /\ (outcome[c].kind = "none" /\ outcome'[c].kind = "result")
             => /\ \E line \in Delivered :
                       /\ line.id = callId[c]
                       /\ line.error = ""
                       /\ outcome'[c].value = line.result
                /\ outcome'[c].value = WorkerAnalyze(file[c])
          /\ (outcome[c].kind = "none" /\ outcome'[c].kind = "error"
                 /\ outcome'[c].value \notin {TerminatedMsg, TimeoutMsg})
             => \E line \in Delivered :
                    line.id = callId[c] /\ outcome'[c].value = line.error]_vars

\* C2 witness: two requests for different files are outstanding and the
\* response to the later request (req_2) has been delivered first.
C2_Witness ==
    \E c1, c2 \in Calls :
        /\ callId[c1] = 1 /\ callId[c2] = 2
        /\ file[c1] # file[c2]
        /\ 1 \in pendingRequests
        /\ outcome[c2] = Resolved(WorkerAnalyze(file[c2]))

\* C3: handling a response whose id is no key of pendingRequests changes
\* neither the pending table, nor any timer, nor readiness, nor the settlement
\* or position of any call.
C3_UnknownIdIgnored ==
    [][(/\ lastOp'.op = "data"
        /\ lastOp'.line.type = "response"
        /\ lastOp'.line.id \notin pendingRequests)
       => UNCHANGED <<pendingRequests, timers, isReady, readyResolved, outcome, pc,
                      microQ, waitQ, pythonProcess, messageId>>]_vars

\* C3 witness: a response with an unknown id was handled while a request was
\* in flight, and that request is still pending.
C3_Witness ==
    /\ lastOp.op = "data"
    /\ lastOp.line.type = "response"
    /\ lastOp.line.id \notin lastOp.pend
    /\ lastOp.pend # {}
    /\ pendingRequests = lastOp.pend
    /\ timers = lastOp.pend

\* C4: when the timeout of a request fires, its pending entry is removed and
\* its caller is rejected with the timeout error; a response for that id
\* handled afterwards changes nothing.
C4_TimeoutThenLateResponse ==
    [][/\ \A c \in Calls :
            (lastOp'.op = "timeout" /\ lastOp'.call = c /\ outcome[c].kind = "none")
            => /\ callId[c] \notin pendingRequests'
               /\ callId[c] \notin timers'
               /\ outcome'[c] = Rejected(TimeoutMsg)
       /\ \A line \in Delivered :
            (line.type = "response" /\ line.id # 0
                /\ outcome[CallerOf(line.id)] = Rejected(TimeoutMsg))
            => UNCHANGED <<pendingRequests, timers, isReady, readyResolved, outcome,
                           pc, microQ, waitQ, pythonProcess, messageId>>]_vars

\* C4 witness: the response for a request arrived after that request had
\* timed out.
C4_Witness ==
    /\ lastOp.op = "data"
    /\ lastOp.line.type = "response"
    /\ lastOp.line.id # 0
    /\ outcome[CallerOf(lastOp.line.id)] = Rejected(TimeoutMsg)

---------------------------------------------------------------------------
(* Facade and Cache *)

\* resolve is called for call c in this step
Called(c) == pc[c] = "idle" /\ pc'[c] # "idle"

\* d is the resolve of the file of c that came last before c
Previous(d, c) ==
    /\ d < c /\ pc[d] = "returned" /\ file[d] = file'[c]
    /\ \A e \in Calls : (d < e /\ e < c) => file[e] # file'[c]

\* the step leaves the Link and its process alone
LinkUntouched == UNCHANGED <<linkVars, osVars, written>>

\* C5 as stated: for every file f, if resolve(f) is called twice with no
\* file-system change in between, the second call returns the identical
\* relation sequence and does not invoke the Worker Link.
C5_Original ==
    [][\A c, d \in Calls :
          (Called(c) /\ Previous(d, c)
              /\ since[d] \in {"quiet", "cache"})
          => /\ pc'[c] = "returned"
             /\ ret'[c].value = ret[d].value
             /\ LinkUntouched]_vars

\* C5: for every file f, if resolve(f) returned with the result for f held in
\* the cache, and is called again with no file-system change and with f's
\* entry neither removed nor replaced in between, the second call returns the
\* identical relation sequence and does not invoke the Worker Link.
C5_SecondResolveHits ==
    [][\A c, d \in Calls :
          (Called(c) /\ Previous(d, c)
              /\ since[d] = "quiet")
          => /\ pc'[c] = "returned"
             /\ ret'[c].value = ret[d].value
             /\ LinkUntouched]_vars

\* C5 witness: a second resolve of a file was answered from the cache with the
\* non-empty sequence the first one had obtained from the worker.
C5_Witness ==
    \E c, d \in Calls :
        /\ d < c
        /\ lastOp.op = "resolve" /\ lastOp.call = c /\ lastOp.hit
        /\ pc[c] = "returned" /\ pc[d] = "returned"
        /\ file[c] = file[d]
        /\ outcome[d].kind = "result"
        /\ since[d] = "quiet"
        /\ ret[c].value = ret[d].value
        /\ ret[c].value # <<>>

\* C6: for every file f, if the modification time of f strictly increases
\* between two resolve(f) calls, the second call rejects the cached entry and
\* goes to the Worker Link with a fresh request.
C6_StaleEntryRejected ==
    [][\A c, d \in Calls :
          (Called(c) /\ Previous(d, c)
              /\ mtime[file[d]] > ret[d].mtime)
          => /\ ~Has(projectIndex'.files, file'[c])
             /\ \/ /\ pc'[c] = "pending"
                   /\ callId'[c] = messageId + 1
                   /\ callId'[c] \in pendingRequests' \ pendingRequests
                \/ /\ pc'[c] = "waitReady"
                   /\ microQ' = Append(microQ, c)]_vars

\* C6 witness: a file resolved and cached was saved again, and the next
\* resolve dropped its entry and registered a new request that was written to
\* the worker.
C6_Witness ==
    \E c, d \in Calls :
        /\ d < c
        /\ lastOp.op = "resolve" /\ lastOp.call = c /\ ~lastOp.hit
        /\ file[c] = file[d]
        /\ file[c] \in lastOp.had
        /\ outcome[d].kind = "result"
        /\ mtime[file[c]] > ret[d].mtime
        /\ ~Has(projectIndex.files, file[c])
        /\ pc[c] = "pending"
        /\ \E p \in Procs : \E r \in stdin[p] : r.id = callId[c] /\ r.file = file[c]

\* C7: invalidating file Y evicts the cache entry of every file X whose
\* recorded dependency list contains Y, whether or not X changed.
C7_InvalidateEvictsDependents ==
    [][\A y \in Files :
          (lastOp'.op = "invalidate" /\ lastOp'.file = y /\ lastOp' # lastOp)
          => \A x \in DOMAIN projectIndex.dependencies :
                y \in SeqToSet(projectIndex.dependencies[x])
                => ~Has(projectIndex'.files, x)]_vars

\* C7 witness: /p/a.py, unchanged and cached with /p/b.py among its
\* dependencies, lost its entry when /p/b.py was invalidated.
C7_Witness ==
    /\ lastOp.op = "invalidate" /\ lastOp.file = FileB
    /\ FileA \in lastOp.had
    /\ Has(projectIndex.dependencies, FileA)
    /\ FileB \in SeqToSet(projectIndex.dependencies[FileA])
    /\ ~Has(projectIndex.files, FileA)
    /\ mtime[FileA] = 0 /\ exists[FileA]

\* C10: when analyze for a file fails (timeout, termination of the worker, or
\* an error response), the resolve it belongs to writes no entry and no
\* dependency row into the cache, up to and including its return.
C10_FailureWritesNothing ==
    [][\A c \in Calls :
          (outcome[c].kind = "error" /\ pc'[c] # pc[c])
          => /\ projectIndex' = projectIndex
             /\ snapshot' = snapshot
             /\ (pc'[c] = "returned" => ret'[c].value = <<>>)]_vars

\* C10 witness: a resolve whose request timed out returned the empty sequence
\* and the cache holds neither an entry nor a dependency row for its file.
C10_Witness ==
    \E c \in Calls :
        /\ pc[c] = "returned"
        /\ outcome[c] = Rejected(TimeoutMsg)
        /\ ret[c].value = <<>>
        /\ ~Has(projectIndex.files, file[c])
        /\ ~Has(projectIndex.dependencies, file[c])


---------------------------------------------------------------------------
(* Scheduler *)

\* every finished run of triggers has been answered by one performAnalysis
OnePerBurst ==
    \A f \in Files :
        performed[f] = bursts[f] - (IF burst[f] # <<>> THEN 1 ELSE 0)

\* C8: N >= 1 triggers for one file, each arriving before the timer registered
\* by the previous one fired, lead to exactly one performAnalysis call for
\* that file, whatever their delays: never more than one, none before the
\* timer of the last trigger fires, and that one unless the manager is
\* disposed of first.
C8_OneAnalysisPerBurst ==
    /\ []OnePerBurst
    /\ \A f \in Files : (burst[f] # <<>>) ~> (burst[f] = <<>> \/ disposed)

\* C8 witness: three triggers with three different delays for one file were
\* answered by its only performAnalysis call.
C8_Witness ==
    /\ lastOp.op = "fire"
    /\ lastOp.burst = <<ChangeDelay, OpenDelay, SaveDelay>>
    /\ lastOp.delay = SaveDelay
    /\ performed[lastOp.file] = 1
    /\ bursts[lastOp.file] = 1
    /\ nextTimer = 3

\* C9: in every reachable state at most one timer is active for any file, and
\* the active timer of a file is the one analysisQueue records for it.
C9_OneTimerPerFile ==
    /\ \A t1, t2 \in schedTimers : t1.file = t2.file => t1 = t2
    /\ \A t \in schedTimers :
          Has(analysisQueue, t.file) /\ analysisQueue[t.file] = t.id

\* C9 witness: a file triggered a second time has one active timer, the newer
\* one, while another file has its own.
C9_Witness ==
    /\ lastOp.op = "schedule"
    /\ Len(lastOp.burst) = 2
    /\ Cardinality(schedTimers) = 2
    /\ \E t \in schedTimers : t.file = lastOp.file /\ t.id = nextTimer
    /\ \E t \in schedTimers : t.file # lastOp.file

---------------------------------------------------------------------------
(* Facade: failures and start-up *)

\* C11: on a failure from the Worker Link, resolve restarts the Link (the
\* process is disposed of, and started again after the delay) and returns the
\* empty sequence to its caller instead of the error.
C11_FailureRestartsAndReturnsEmpty ==
    [][\A c \in Calls :
          /\ (pc[c] = "settled" /\ outcome[c].kind = "error" /\ pc'[c] # pc[c])
             => /\ pc'[c] = "restartDelay"
                /\ pythonProcess' = 0
                /\ pythonProcess # 0 => procState'[pythonProcess] # "running"
          /\ (pc[c] = "restartDelay" /\ pc'[c] # pc[c])
             => /\ pythonProcess' # 0
                /\ procState'[pythonProcess'] \in {"running", "failed"}
                /\ pc'[c] \in {"returned", "restartWait"}
          /\ (outcome[c].kind = "error" /\ pc[c] # "returned" /\ pc'[c] = "returned")
             => ret'[c].value = <<>>]_vars

\* C11 witness: a resolve whose worker died got the empty sequence back, with
\* a second worker process started in place of the first.
C11_Witness ==
    \E c \in Calls :
        /\ lastOp.op = "restartTimer" /\ lastOp.call = c
        /\ pc[c] = "returned"
        /\ outcome[c] = Rejected(TerminatedMsg)
        /\ ret[c].value = <<>>
        /\ pythonProcess = 2
        /\ procState[2] = "running"
        /\ procState[1] = "exited"

\* C12: for any interleaving of resolve calls, including calls that arrive
\* while an earlier initialization still waits for the ready signal, exactly
\* one Worker Link is created and initialization spawns exactly one process:
\* never a second Link, never processes of two Links.
C12_OneLinkOneProcess ==
    /\ processManager <= 1
    /\ Cardinality({procMgr[p] : p \in Procs} \ {0}) <= 1

---------------------------------------------------------------------------
(* Worker Link: life cycle *)

\* C13: at most one worker process is alive at any time, for every
\* interleaving of start(), restart(), dispose() and exit / error events.
C13_OneProcessAlive ==
    Cardinality({p \in Procs : procState[p] = "running"}) <= 1

\* C14: no request line is ever written to a worker process before that
\* process has emitted its ready signal, be it the first process or one
\* spawned by a later restart.
C14_NoWriteBeforeReady ==
    [][\A p \in Procs : stdin'[p] \ stdin[p] # {} => procReady[p]]_vars

\* C14 witness: after a restart, a call that found isReady false passed the
\* readiness promise resolved by the first process and wrote its request to
\* the second process, which has not printed its ready line.
C14_Witness ==
    \E c \in Calls :
        /\ lastOp.op = "resume" /\ lastOp.call = c
        /\ pc[c] = "pending"
        /\ pythonProcess = 2
        /\ <<callId[c], 2>> \in written
        /\ ~procReady[2]
        /\ ~isReady
        /\ stdout[1] = {}

---------------------------------------------------------------------------
(* Cache: freshness *)

\* the relations of f as computed when file y had modification time m,
\* whatever the state of the other files was
ComputedWhen(f, y, m) ==
    {normalizeAll(AnalysisOf(f, mt, ex)) :
        mt \in {t \in [Files -> 0..MaxFsEvents] : t[y] = m}, ex \in [Files -> BOOLEAN]}

\* C15: every cache entry's lastModified is the modification time the file
\* had when the entry's relations were computed, also when the file changes
\* between the analyze request and the storing of the response.
C15_StampIsTimeOfAnalysis ==
    \A f \in DOMAIN projectIndex.files :
        projectIndex.files[f].overrides
            \in ComputedWhen(f, f, projectIndex.files[f].lastModified)

\* C15 witness: a resolve was answered from the cache with relations computed
\* from content older than the modification time the entry is stamped with.
C15_Witness ==
    \E c \in Calls :
        /\ lastOp.op = "resolve" /\ lastOp.call = c /\ lastOp.hit
        /\ pc[c] = "returned"
        /\ projectIndex.files[file[c]].lastModified = mtime[file[c]]
        /\ ret[c].value \notin ComputedWhen(file[c], file[c], mtime[file[c]])

\* C16: once the change notifications for Y have been processed, the cache
\* holds no entry for X whose relations reference Y and were computed before Y
\* changed, also when a notification is processed while resolve(X) is in
\* flight and X's dependency row is not yet recorded.
C16_NoEntryOlderThanPeer ==
    \A x \in DOMAIN projectIndex.files : \A y \in Files \ {x} :
        (y \in SeqToSet(depsOf(projectIndex.files[x].overrides))
            /\ <<"change", y>> \notin watchQ)
        => projectIndex.files[x].overrides \in ComputedWhen(x, y, mtime[y])

\* C16 witness: a resolve of X that was in flight while Y changed and while
\* the change was notified stored relations that point into the old Y.
C16_Witness ==
    \E c \in Calls :
        /\ lastOp.op = "resume" /\ lastOp.call = c
        /\ pc[c] = "returned"
        /\ file[c] = FileA
        /\ outcome[c].kind = "result"
        /\ Has(projectIndex.files, FileA)
        /\ FileB \in SeqToSet(projectIndex.dependencies[FileA])
        /\ mtime = [f \in Files |-> IF f = FileB THEN 1 ELSE 0]
        /\ watchQ = {}
        /\ projectIndex.files[FileA].overrides \notin ComputedWhen(FileA, FileB, 1)

\* C17: after remove(Y) for a deleted file Y, every file X whose dependency
\* list contains Y misses on its next cache access: a get(X) that follows the
\* removal does not return the relations cached for X.
C17_DependentsMissAfterRemove ==
    [][\A x \in Files :
          (lastOp.op = "remove" /\ lastOp'.op = "get" /\ lastOp'.file = x
              /\ Has(projectIndex.files, x)
              /\ Has(projectIndex.dependencies, x)
              /\ lastOp.file \in SeqToSet(projectIndex.dependencies[x]))
          => ~lastOp'.hit]_vars

\* C17 witness: /p/b.py was deleted and removed, and the get of /p/a.py that
\* followed returned the relations cached for it, which point into /p/b.py.
C17_Witness ==
    /\ lastOp.op = "get" /\ lastOp.file = FileA /\ lastOp.hit
    /\ lastOp.value = normalizeAll(AnalysisOf(FileA, [f \in Files |-> 0],
                                              [f \in Files |-> TRUE]))
    /\ ~exists[FileB]
    /\ <<"delete", FileB>> \notin watchQ
    /\ Has(projectIndex.dependencies, FileA)
    /\ FileB \in SeqToSet(projectIndex.dependencies[FileA])
    /\ ~Has(projectIndex.files, FileB)

\* C18: every analyze call eventually completes with an outcome (its response,
\* Timeout, or process-terminated), also when it was issued before the worker
\* was ready and the worker exits or errors before signalling readiness.  Stated
\* for the calls made while the Link holds a process.
C18_EveryCallCompletes ==
    \A c \in Calls :
        (lastOp.op = "analyze" /\ lastOp.call = c /\ lastOp.proc # 0)
            ~> (outcome[c].kind # "none")

\* C18 witness: a call made before readiness is still awaiting readyPromise
\* after its worker is gone, with no process, no timer and nothing runnable.
C18_Witness ==
    \E c \in Calls :
        /\ pc[c] = "waitReady" /\ outcome[c].kind = "none"
        /\ c \in SeqToSet(waitQ)
        /\ lastOp.op \in {"exit", "error"} /\ lastOp.proc = 1
        /\ procState[1] = "exited" /\ ~procReady[1]
        /\ pythonProcess = 0 /\ timers = {} /\ microQ = <<>>
        /\ restartsWaiting = 0

\* C19: when the spawn of the worker reports an error, initialize() (and the
\* start() it awaits) does not remain pending forever: the call that is
\* awaiting initialization of a Link whose spawn failed eventually stops
\* awaiting it.
C19_SpawnFailureSurfaces ==
    \A c \in Calls :
        (pc[c] = "initWait" /\ pythonProcess # 0
            /\ procState[pythonProcess] = "failed")
            ~> (pc[c] # "initWait")

\* C19 witness: the 'error' event of the failed spawn was handled, and the
\* call is still awaiting start(), the Facade uninitialized, nothing runnable.
C19_Witness ==
    \E c \in Calls :
        /\ pc[c] = "initWait" /\ c \in SeqToSet(waitQ)
        /\ lastOp.op = "error" /\ lastOp.proc = 1
        /\ procState[1] = "exited"
        /\ pythonProcess = 0 /\ ~isInitialized /\ ~readyResolved
        /\ microQ = <<>> /\ timers = {}

\* C20: start() is idempotent.  A start() made while the Link holds a process
\* (started or still starting), be it a direct call or the one restart() makes
\* after its delay, spawns nothing and hands back the Link's one readiness
\* future untouched: the processes, the future's state and the calls awaiting
\* it are as before.  That future becomes resolved only in a step that handles
\* a ready line which a worker of the Link emitted.
C20_StartIsIdempotent ==
    [][/\ (pythonProcess # 0
             /\ \E st \in {"running", "failed"} : StartCall(st) \/ RestartTimer(st))
          => /\ pythonProcess' = pythonProcess
             /\ procState' = procState
             /\ procMgr' = procMgr
             /\ readyResolved' = readyResolved
             /\ isReady' = isReady
             /\ waitQ' = waitQ
       /\ (\E p \in Procs : procState[p] = "none" /\ procState'[p] # "none")
          => pythonProcess = 0
       /\ (readyResolved' /\ ~readyResolved)
          => /\ lastOp'.op = "data" /\ lastOp'.line = ReadyLine
             /\ procReady[lastOp'.proc]
             /\ ReadyLine \in stdout[lastOp'.proc]]_vars

\* C20 witness: start() was called on a Link whose worker had been spawned by
\* an earlier start() and had signalled readiness; the Link still holds that
\* one process and no other was spawned.
C20_Witness ==
    /\ lastOp.op = "start" /\ lastOp.proc = 1
    /\ pythonProcess = 1 /\ procState[1] = "running"
    /\ readyResolved /\ isReady
    /\ \A p \in Procs \ {1} : procState[p] = "none"

----------------------------------------------------------------------------
(* Scheduler: cancellation *)

\* C21: closing a file that has a pending debounce timer cancels that timer and
\* removes it from the pending set: right after the close the file has neither
\* an analysisQueue entry nor an armed timer, and the step that follows the
\* close is not the firing of a timer of that file.
C21_CloseCancelsTimer ==
    [][/\ (lastOp'.op = "close" /\ lastOp' # lastOp)
          => /\ ~Has(analysisQueue', lastOp'.file)
             /\ \A t \in schedTimers' : t.file # lastOp'.file
       /\ (lastOp.op = "close" /\ lastOp'.op = "fire")
          => lastOp'.file # lastOp.file]_vars

\* C21 witness: a file with a trigger outstanding was closed, and its timer is
\* still armed and still recorded in analysisQueue.
C21_Witness ==
    /\ lastOp.op = "close"
    /\ lastOp.burst # <<>>
    /\ Has(analysisQueue, lastOp.file)
    /\ \E t \in schedTimers : t.file = lastOp.file /\ t.id = analysisQueue[lastOp.file]
    /\ performed[lastOp.file] = 0
    /\ ~disposed

----------------------------------------------------------------------------
(* Cache: start-up and the single operations *)

\* C22: when the snapshot file is absent, unreadable, fails to parse, or has a
\* malformed files or dependencies part, the cache is constructed all the same
\* and starts with an empty files mapping and an empty dependencies mapping.
C22_BadSnapshotStartsEmpty ==
    (lastOp.op = "load" /\ ~WellFormed(snapshot))
        => /\ DOMAIN projectIndex.files = {}
           /\ DOMAIN projectIndex.dependencies = {}

\* C22 witness: the files part of the snapshot held the pair ["/p/a.py", 5];
\* the cache constructed from it has an entry for /p/a.py that is no entry.
C22_Witness ==
    /\ lastOp.op = "load"
    /\ snapshot.present /\ snapshot.data.kind = "object"
    /\ snapshot.data.files = IterablePart(<<PairItem(FileA, NumberValue)>>)
    /\ snapshot.data.dependencies = MissingPart
    /\ DOMAIN projectIndex.files = {FileA}
    /\ projectIndex.files[FileA] = 5

\* C23: get(f) returns the cached relations exactly when f has an entry, f
\* exists on disk and its modification time is not greater than the entry's
\* lastModified (equal is a hit); on a hit the index is unchanged; in every
\* other case with an entry present the entry of f, and nothing else, is
\* removed and the get misses.  (A step that leaves lastOp a get and the file
\* system alone is a get.)
C23_GetHitsExactlyWhenFresh ==
    [][\A f \in Files :
          (lastOp'.op = "get" /\ lastOp'.file = f /\ UNCHANGED fsVars) =>
             LET had == Has(projectIndex.files, f)
                 fresh == /\ had
                          /\ exists[f]
                          /\ mtime[f] <= projectIndex.files[f].lastModified
             IN /\ lastOp'.hit = fresh
                /\ fresh => /\ lastOp'.value = projectIndex.files[f].overrides
                            /\ projectIndex' = projectIndex
                /\ (had /\ ~fresh)
                      => /\ projectIndex'.files = MapDelete(projectIndex.files, {f})
                         /\ projectIndex'.dependencies = projectIndex.dependencies
                /\ ~had => projectIndex' = projectIndex]_vars

\* C23 witness: a get hit on an entry whose lastModified equals the file's
\* modification time, the file having been modified before it was cached.
C23_Witness ==
    /\ lastOp.op = "get" /\ lastOp.file = FileA /\ lastOp.hit
    /\ lastOp.value # <<>>
    /\ Has(projectIndex.files, FileA)
    /\ projectIndex.files[FileA].lastModified = mtime[FileA]
    /\ mtime[FileA] = 1
    /\ exists[FileA]

----------------------------------------------------------------------------
(* Worker Link: requests, ids and the output stream *)

\* C24: every analyze call that registers a pending entry writes exactly one
\* request line to a worker's input stream: each id allocated so far was
\* written once, in every reachable state of the Link.
C24_OneLinePerRequest ==
    \A id \in 1..messageId :
        Cardinality({p \in Procs : <<id, p>> \in written}) = 1

\* C24 witness: the worker had signalled readiness and exited; a call made
\* afterwards passed the resolved readiness promise and registered its entry
\* and timer with the process reference null, writing nothing.
C24_Witness ==
    \E c \in Calls :
        /\ lastOp.op = "resume" /\ lastOp.call = c
        /\ pc[c] = "pending"
        /\ callId[c] \in pendingRequests /\ callId[c] \in timers
        /\ \A p \in Procs : <<callId[c], p>> \notin written
        /\ pythonProcess = 0 /\ ~isReady /\ readyResolved
        /\ procState[1] = "exited"
        /\ restartsWaiting = 0

\* C25: correlation ids are fresh and strictly increasing over the lifetime of
\* a Link: the id a call is given is greater than every id given before, also
\* after worker crashes and restarts; no two calls share an id, and every
\* pending id is the id of exactly one call.
C25_IdsFreshAndIncreasing ==
    [][/\ messageId' >= messageId
       /\ \A c \in Calls :
             callId'[c] # callId[c]
                => /\ callId'[c] = messageId'
                   /\ messageId' > messageId
                   /\ \A d \in Calls : callId[d] < callId'[c]
       /\ \A c, d \in Calls :
             (c # d /\ callId'[c] # 0) => callId'[c] # callId'[d]
       /\ \A id \in pendingRequests' :
             Cardinality({c \in Calls : callId'[c] = id}) = 1]_vars

\* C25 witness: the first request went to the first worker, which is gone; the
\* second request, made after the restart, has the next id and went to the
\* second worker.
C25_Witness ==
    /\ callId = <<1, 2>>
    /\ messageId = 2
    /\ <<1, 1>> \in written /\ <<2, 2>> \in written
    /\ procState[1] = "exited" /\ procState[2] = "running"
    /\ outcome[1] = Rejected(TerminatedMsg)
    /\ pendingRequests = {2}

\* C26: framing does not depend on chunking.  However the bytes received so
\* far were split into chunks, the lines handed to decoding are the complete
\* lines of those bytes taken as one chunk, and what follows the last newline
\* is buffered, not decoded.
C26_FramingIgnoresChunking ==
    /\ handed = CompleteLines(toString(received))
    /\ outputBuffer = Fragment(toString(received))

\* C26 witness: the worker printed U+00E9 and a newline; the two bytes of the
\* character came in two chunks and the line handed to decoding holds two
\* U+FFFD in its place.
C26_Witness ==
    /\ received = <<195, 169, 10>>
    /\ pipe = <<>>
    /\ handed = << <<65533, 65533>> >>
    /\ CompleteLines(toString(received)) = << <<233>> >>
    /\ outputBuffer = <<>>

\* C27: a complete line that does not decode is discarded without side
\* effects: the step that handles it leaves the pending table, the timers,
\* the readiness state, the outcomes of all calls and the runnable
\* continuations as they were; and the lines that follow it in the chunk are
\* still processed: each line still on the stdout of that process can be
\* handled next.
C27_GarbageLineHasNoEffect ==
    /\ [][(lastOp' # lastOp /\ lastOp'.op = "data" /\ lastOp'.line = GarbageLine) =>
             UNCHANGED <<pendingRequests, timers, isReady, readyResolved, waitQ,
                         outcome, pc, microQ, stdout, pythonProcess>>]_vars
    /\ []((lastOp.op = "data" /\ lastOp.line = GarbageLine) =>
             \A line \in stdout[lastOp.proc] :
                 ENABLED StdoutData(lastOp.proc, line))

\* C27 witness: inside a chunk, after the answer of the first request made
\* its continuation runnable, a line that is no JSON was handled; the second
\* request is still pending with its timer, and its answer, the next line, is
\* still to be handled.
C27_Witness ==
    /\ lastOp.op = "data" /\ lastOp.line = GarbageLine
    /\ microQ # <<>>
    /\ pendingRequests = {2} /\ timers = {2}
    /\ isReady
    /\ \E line \in stdout[lastOp.proc] : line.id = 2

\* C28: invalidate(Y) is single-hop.  The watcher's change notification for Y
\* removes exactly the entry of Y and the entries of the files whose own
\* dependency list contains Y; every other entry, also that of a file that
\* reaches Y only through another file, and the whole dependencies mapping
\* stay as they were.
C28_InvalidateIsSingleHop ==
    [][\A y \in Files :
          (<<"change", y>> \in watchQ /\ watchQ' = watchQ \ {<<"change", y>>}) =>
             /\ projectIndex'.files =
                   MapDelete(projectIndex.files,
                             {y} \cup {x \in DOMAIN projectIndex.dependencies :
                                          y \in SeqToSet(projectIndex.dependencies[x])})
             /\ projectIndex'.dependencies = projectIndex.dependencies]_vars

\* C28 witness: /p/a.py depends on /p/c.py, which depends on /p/b.py; both
\* /p/a.py and /p/b.py were cached; /p/b.py was invalidated and the entry of
\* /p/a.py is still there.
C28_Witness ==
    /\ lastOp.op = "invalidate" /\ lastOp.file = FileB
    /\ lastOp.had = {FileA, FileB}
    /\ DOMAIN projectIndex.files = {FileA}
    /\ DOMAIN projectIndex.dependencies = {FileA, FileC}
    /\ projectIndex.dependencies[FileA] = <<FileC>>
    /\ projectIndex.dependencies[FileC] = <<FileB>>

\* C29: remove(f) deletes the entry of f and the dependency row of f and
\* nothing else: the entries and rows of all other files, also of those whose
\* dependency list contains f, stay as they were.
C29_RemoveTouchesOnlyItsFile ==
    [][\A f \in Files :
          (<<"delete", f>> \in watchQ /\ watchQ' = watchQ \ {<<"delete", f>>}) =>
             /\ projectIndex'.files = MapDelete(projectIndex.files, {f})
             /\ projectIndex'.dependencies = MapDelete(projectIndex.dependencies, {f})
             /\ \A x \in (DOMAIN projectIndex.files) \ {f} :
                   Has(projectIndex'.files, x)
                      /\ projectIndex'.files[x] = projectIndex.files[x]
             /\ \A x \in (DOMAIN projectIndex.dependencies) \ {f} :
                   Has(projectIndex'.dependencies, x)
                      /\ projectIndex'.dependencies[x] = projectIndex.dependencies[x]]_vars

\* C29 witness: /p/b.py, cached, was deleted and removed; /p/a.py, whose
\* dependency list names /p/b.py, still has its entry and its row, and the row
\* of /p/c.py is still there too.
C29_Witness ==
    /\ lastOp.op = "remove" /\ lastOp.file = FileB
    /\ lastOp.had = {FileA, FileB}
    /\ DOMAIN projectIndex.files = {FileA}
    /\ DOMAIN projectIndex.dependencies = {FileA, FileC}
    /\ projectIndex.dependencies[FileA] = <<FileB>>
    /\ projectIndex.dependencies[FileC] = <<FileB>>

\* C30 as stated: after set(f, relations) the entry of f holds exactly the
\* given relations, stamped with the modification time of f, and the snapshot
\* contains that entry.
C30_SetAlwaysStores ==
    [][\A f \in Files :
          (lastOp'.op = "set" /\ lastOp'.file = f /\ UNCHANGED fsVars) =>
             /\ Has(projectIndex'.files, f)
             /\ projectIndex'.files[f] =
                   [overrides |-> lastOp'.value, lastModified |-> mtime[f]]
             /\ snapshot'.present
             /\ snapshot'.data = projectIndex']_vars

\* C30 amended: when f exists, after set(f, relations) the entry of f holds
\* exactly the given relations, stamped with the modification time of f, the
\* other entries and the dependencies mapping are as before and, unless the
\* snapshot cannot be written, the snapshot holds the index as it now is;
\* when f does not exist, set changes neither the index nor the snapshot.
C30_SetStoresForExistingFile ==
    [][\A f \in Files :
          (lastOp'.op = "set" /\ lastOp'.file = f /\ UNCHANGED fsVars) =>
             IF exists[f]
             THEN /\ projectIndex'.files =
                        MapSet(projectIndex.files, f,
                               [overrides |-> lastOp'.value,
                                lastModified |-> mtime[f]])
                  /\ projectIndex'.dependencies = projectIndex.dependencies
                  /\ diskOk => (snapshot'.present /\ snapshot'.data = projectIndex')
             ELSE /\ projectIndex' = projectIndex
                  /\ snapshot' = snapshot]_vars

\* C30 witness: /p/a.py was cached with relations, then saved, and a set with
\* the empty sequence followed: the entry holds the empty sequence and the new
\* modification time, in the index and in the snapshot.
C30_Witness ==
    /\ lastOp.op = "set" /\ lastOp.file = FileA /\ lastOp.value = <<>>
    /\ FileA \in lastOp.had
    /\ exists[FileA] /\ mtime[FileA] = 1
    /\ Has(projectIndex.files, FileA)
    /\ projectIndex.files[FileA] = [overrides |-> <<>>, lastModified |-> 1]
    /\ snapshot.present
    /\ snapshot.data = projectIndex

\* C31: starting from an empty index, whatever cache operations were made, no
\* dependency list holds an empty path and none holds the same path twice.
C31_DependencyRowsAreSets ==
    \A x \in DOMAIN projectIndex.dependencies :
        LET row == projectIndex.dependencies[x] IN
        /\ \A i \in 1..Len(row) : row[i] # ""
        /\ \A i, j \in 1..Len(row) : row[i] = row[j] => i = j

\* C31 witness: setDependencies was handed a list with an empty path and a
\* path twice, and the row stored has neither.
C31_Witness ==
    /\ lastOp.op = "setDependencies" /\ lastOp.file = FileA
    /\ lastOp.value = <<FileB, "", FileA, FileB>>
    /\ Has(projectIndex.dependencies, FileA)
    /\ projectIndex.dependencies[FileA] = <<FileB, FileA>>

\* C32: cache operations are atomic with respect to persistence.  While the
\* snapshot can be written, after every cache operation the files and the
\* dependencies of the persisted snapshot equal those of the index in memory
\* (no snapshot yet: an empty index), also after a get that evicted an entry.
C32_SnapshotEqualsIndex ==
    diskOk =>
       /\ snapshot.data.files = projectIndex.files
       /\ snapshot.data.dependencies = projectIndex.dependencies

\* C32 witness: a get of /p/a.py after the file was saved evicted its entry
\* from the index, and the snapshot on disk still holds that entry.
C32_Witness ==
    /\ lastOp.op = "get" /\ lastOp.file = FileA /\ ~lastOp.hit
    /\ FileA \in lastOp.had
    /\ ~Has(projectIndex.files, FileA)
    /\ snapshot.present /\ diskOk
    /\ Has(snapshot.data.files, FileA)
    /\ snapshot.data.dependencies = projectIndex.dependencies

\* C33: a persistence failure is swallowed.  While the snapshot cannot be
\* written, each set, setDependencies, invalidate, remove and clear still
\* returns with the index in memory updated: set stores the entry of an
\* existing file, setDependencies the row, invalidate and remove delete the
\* entry (remove the row too), clear empties both mappings; the snapshot on
\* disk stays as it was.
C33_PersistFailureIsSwallowed ==
    [][(~diskOk /\ UNCHANGED <<mtime, exists, diskOk>>) =>
          LET f == lastOp'.file
              op == lastOp'.op
              files == projectIndex'.files
              deps == projectIndex'.dependencies IN
          /\ op \in {"set", "setDependencies", "invalidate", "remove", "clear"}
          /\ snapshot' = snapshot
          /\ (op = "set" /\ exists[f]) =>
                /\ Has(files, f)
                /\ files[f] = [overrides |-> lastOp'.value, lastModified |-> mtime[f]]
          /\ (op = "setDependencies") =>
                /\ Has(deps, f)
                /\ SeqToSet(deps[f]) = SeqToSet(lastOp'.value) \ {"", Undef}
          /\ (op = "invalidate") => ~Has(files, f)
          /\ (op = "remove") => (~Has(files, f) /\ ~Has(deps, f))
          /\ (op = "clear") => (files = <<>> /\ deps = <<>>)]_vars

\* C33 witness: the storage had failed before anything was persisted;
\* set('/p/a.py', relations) returned, the index holds the entry and there is
\* still no snapshot.
C33_Witness ==
    /\ ~diskOk
    /\ lastOp.op = "set" /\ lastOp.file = FileA
    /\ lastOp.value # <<>>
    /\ Has(projectIndex.files, FileA)
    /\ projectIndex.files[FileA].overrides = lastOp.value
    /\ ~snapshot.present

\* the peer files the relations rs refer to: base_file_path of child_override
\* and child_file_path of parent_overridden relations, the empty ones left out
PeersOf(rs) ==
    ({rs[i].base_file_path : i \in {j \in 1..Len(rs) : rs[j].type = "child_override"}}
        \cup {rs[i].child_file_path :
                 i \in {j \in 1..Len(rs) : rs[j].type = "parent_overridden"}})
       \ {"", Undef}

\* the row of f in idx is a duplicate-free list of exactly the paths S
RowIs(idx, f, S) ==
    /\ Has(idx.dependencies, f)
    /\ SeqToSet(idx.dependencies[f]) = S
    /\ Len(idx.dependencies[f]) = Cardinality(S)

\* the step in which the resolve of call c stores the relations that arrived
StoresResult(c) ==
    /\ pc[c] = "settled" /\ outcome[c].kind = "result"
    /\ pc'[c] = "returned"

\* C34 as stated: after a successful resolve(f) on a cache miss the cache
\* holds an entry for f with the returned relations, and the dependency row of
\* f is exactly the set of distinct non-empty peer paths of those relations.
C34_ResolveStoresEntryAndRow ==
    [][\A c \in Calls : StoresResult(c) =>
          /\ Has(projectIndex'.files, file[c])
          /\ projectIndex'.files[file[c]].overrides = ret'[c].value
          /\ RowIs(projectIndex', file[c], PeersOf(ret'[c].value))]_vars

\* C34 amended: after a successful resolve(f) on a cache miss the dependency
\* row of f is exactly the set of distinct non-empty peer paths of the
\* returned relations; if f still exists when they are stored, the cache holds
\* an entry for f with them, and if f was deleted meanwhile the files mapping
\* is left as it was.
C34_ResolveStoresRowAndEntryIfFileExists ==
    [][\A c \in Calls : StoresResult(c) =>
          /\ RowIs(projectIndex', file[c], PeersOf(ret'[c].value))
          /\ exists[file[c]] =>
                /\ Has(projectIndex'.files, file[c])
                /\ projectIndex'.files[file[c]].overrides = ret'[c].value
          /\ ~exists[file[c]] => projectIndex'.files = projectIndex.files]_vars

\* C34 witness: a resolve of /p/b.py that missed returned the worker's
\* relations; the entry holds them and the row names /p/a.py once, not the
\* empty child path of the second relation.
C34_Witness ==
    \E c \in Calls :
        /\ lastOp.op = "resume" /\ lastOp.call = c
        /\ pc[c] = "returned" /\ outcome[c].kind = "result"
        /\ file[c] = FileB /\ FileB \notin lastOp.had
        /\ Len(ret[c].value) = 2
        /\ Has(projectIndex.files, FileB)
        /\ projectIndex.files[FileB].overrides = ret[c].value
        /\ Has(projectIndex.dependencies, FileB)
        /\ projectIndex.dependencies[FileB] = <<FileA>>

\* C35: the Link never restarts itself.  A process is spawned only by a step
\* of start() or by the start() that ends the delay of restart(), never by the
\* handling of an exit or error event; restart() disposes at once (no process
\* held, nothing pending, not ready, nothing spawned), and its start() runs
\* only after its delay, once per restart().
C35_NoSelfRestart ==
    [][/\ \A p \in Procs :
             (procState[p] = "none" /\ procState'[p] # "none")
                => lastOp'.op \in {"start", "restartTimer"}
       /\ (lastOp' # lastOp /\ lastOp'.op \in {"exit", "error"})
             => /\ pythonProcess' = 0
                /\ \A p \in Procs : procState[p] = "none" => procState'[p] = "none"
       /\ (lastOp' # lastOp /\ lastOp'.op = "restart")
             => /\ pythonProcess' = 0 /\ pendingRequests' = {} /\ ~isReady'
                /\ \A p \in Procs : procState[p] = "none" => procState'[p] = "none"
                /\ pythonProcess # 0 => procState'[pythonProcess] # "running"
                /\ restartsWaiting' = restartsWaiting + 1
       /\ (lastOp' # lastOp /\ lastOp'.op = "restartTimer")
             => /\ restartsWaiting > 0
                /\ restartsWaiting' = restartsWaiting - 1]_vars

\* C35 witness: the first process exited and, nothing having called start()
\* or restart(), no other process was spawned and the Link holds none.
C35_Witness ==
    /\ lastOp.op = "exit" /\ lastOp.proc = 1
    /\ procState[1] = "exited"
    /\ \A p \in Procs \ {1} : procState[p] = "none"
    /\ pythonProcess = 0
    /\ restartsWaiting = 0

C37_RestartFailsTheOthers ==
    [][/\ \A c \in Calls :
             (pc[c] = "settled" /\ outcome[c].kind = "error"
                 /\ pc'[c] = "restartDelay")
             => /\ pendingRequests' = {}
                /\ timers' \cap pendingRequests = {}
                /\ \A d \in Calls \ {c} :
                      (callId[d] \in pendingRequests /\ pc[d] = "pending")
                         => /\ outcome'[d] = Rejected(TerminatedMsg)
                            /\ pc'[d] = "settled"
                /\ projectIndex' = projectIndex
       /\ \A d \in Calls :
             (outcome[d] = Rejected(TerminatedMsg)
                 /\ pc[d] # "returned" /\ pc'[d] = "returned")
             => /\ ret'[d].value = <<>>
                /\ projectIndex' = projectIndex
                /\ snapshot' = snapshot]_vars

\* C37 witness: two resolves were in flight on a running worker; the worker
\* answered the first with an error, the Facade disposed the Link for it, and
\* the second, whose answer had not come, is failed with 'Python process
\* terminated'.
C37_Witness ==
    \E c, d \in Calls :
        /\ c # d
        /\ lastOp.op = "resume" /\ lastOp.call = c
        /\ pc[c] = "restartDelay" /\ outcome[c] = Rejected(WorkerErrorMsg)
        /\ pc[d] = "settled" /\ outcome[d] = Rejected(TerminatedMsg)
        /\ pendingRequests = {} /\ timers = {}
        /\ \E p \in Procs : procState[p] = "killed" /\ procReady[p]
        /\ projectIndex = EmptyIndex

\* C38: each analyze request is settled exactly once.  An id is in the pending
\* table exactly while the request registered under it is unsettled, and a
\* timer is armed exactly for the ids in the table; an outcome, once given
\* (response, timeout or termination), never changes; and the step that
\* settles a request takes its id out of the table and cancels its timer.
C38_SettledExactlyOnce ==
    /\ [](/\ timers = pendingRequests
          /\ \A c \in Calls :
                callId[c] # 0 =>
                   (callId[c] \in pendingRequests <=> outcome[c].kind = "none"))
    /\ [][\A c \in Calls :
             /\ outcome[c].kind # "none" => outcome'[c] = outcome[c]
             /\ (outcome[c].kind = "none" /\ outcome'[c].kind # "none")
                   => /\ callId[c] \in pendingRequests
                      /\ callId[c] \notin pendingRequests'
                      /\ callId[c] \notin timers']_vars

\* C38 witness: a request timed out, the worker's answer for it arrived later
\* and was handled, and the request still has the outcome of its timeout.
C38_Witness ==
    \E c \in Calls :
        /\ lastOp.op = "data" /\ lastOp.line.type = "response"
        /\ lastOp.line.id = callId[c] /\ callId[c] # 0
        /\ lastOp.line.error = ""
        /\ outcome[c] = Rejected(TimeoutMsg)
        /\ callId[c] \notin pendingRequests /\ callId[c] \notin timers

---------------------------------------------------------------------------
(* The first DocumentManager of the file, lines 366-457: debounceTimers *)

\* the Timeout that setTimeout returns at line 435: "armed" until it fires or
\* is cleared, "awaiting" while its callback awaits updateDecorations (437),
\* "done" once the callback has run its finally block (441-443)
NodeTimeout(f, st) == [file |-> f, state |-> st]

\* clearTimeout(id): cancels a timer that has not fired, nothing otherwise
clearTimeout(ts, id) ==
    IF id \in 1..Len(ts) /\ ts[id].state = "armed"
    THEN [ts EXCEPT ![id].state = "cleared"]
    ELSE ts

ArmedTimers(f) ==
    {i \in 1..Len(timeouts) : timeouts[i].file = f /\ timeouts[i].state = "armed"}

\* scheduleAnalysis of the first DocumentManager, lines 423-447, called by
\* onDidChangeActiveTextEditor (388-394) and onDidSaveTextDocument (397-406)
scheduleAnalysisDebounced(f) ==
    /\ Len(timeouts) < MaxTimeouts
    /\ timeouts' = Append(clearTimeout(timeouts, debounceTimers[f]),
                          NodeTimeout(f, "armed"))
    /\ debounceTimers' = [debounceTimers EXCEPT ![f] = Len(timeouts) + 1]
    /\ UNCHANGED <<osVars, linkVars, callVars, otherVars, schedVars, frameVars,
                   written, lastOp>>

\* the delay of timer i elapses: its callback starts and suspends at
\* 'await this.decorationProvider.updateDecorations(editor)', lines 435-437
DebounceFires(i) ==
    /\ i \in 1..Len(timeouts)
    /\ timeouts[i].state = "armed"
    /\ timeouts' = [timeouts EXCEPT ![i].state = "awaiting"]
    /\ UNCHANGED <<debounceTimers, osVars, linkVars, callVars, otherVars,
                   schedVars, frameVars, written, lastOp>>

\* updateDecorations settles, either way: the callback of timer i resumes and
\* its finally block deletes the record of its file, lines 437-443
DebounceCallbackEnds(i) ==
    /\ i \in 1..Len(timeouts)
    /\ timeouts[i].state = "awaiting"
    /\ timeouts' = [timeouts EXCEPT ![i].state = "done"]
    /\ debounceTimers' = [debounceTimers EXCEPT ![timeouts[i].file] = 0]
    /\ UNCHANGED <<osVars, linkVars, callVars, otherVars, schedVars, frameVars,
                   written, lastOp>>

\* onDidCloseTextDocument of the first DocumentManager, lines 408-421
closeDocumentDebounced(f) ==
    /\ IF debounceTimers[f] # 0
       THEN /\ timeouts' = clearTimeout(timeouts, debounceTimers[f])
            /\ debounceTimers' = [debounceTimers EXCEPT ![f] = 0]
       ELSE UNCHANGED <<debounceTimers, timeouts>>
    /\ UNCHANGED <<osVars, linkVars, callVars, otherVars, schedVars, frameVars,
                   written, lastOp>>

NextDebounce ==
    \/ \E f \in Files : scheduleAnalysisDebounced(f)
    \/ \E i \in 1..MaxTimeouts : DebounceFires(i)
    \/ \E i \in 1..MaxTimeouts : DebounceCallbackEnds(i)
    \/ \E f \in Files : closeDocumentDebounced(f)

SpecDebounce == Init /\ [][NextDebounce]_vars

\* C40: in the first DocumentManager, whatever the interleaving of
\* scheduleAnalysis, timers firing, callbacks finishing and documents closing,
\* a file has at most one timer that has not fired, and that timer is the one
\* debounceTimers records for the file.
C40_OneRecordedTimerPerFile ==
    \A f \in Files :
        /\ Cardinality(ArmedTimers(f)) <= 1
        /\ \A i \in ArmedTimers(f) : debounceTimers[f] = i

\* the callback of an older timer has finished and two timers of one file
\* are waiting to fire
C40_Witness ==
    \E f \in Files : \E i, j, k \in 1..Len(timeouts) :
        /\ i < j /\ j < k
        /\ timeouts[i].file = f
        /\ timeouts[i].state = "done"
        /\ {j, k} \subseteq ArmedTimers(f)
        /\ debounceTimers[f] = k

===========================================================================
